---- MODULE Spec2Model ----
(***************************************************************************)
(* A model of the humble_blockchain ledger: the Chain and its add_block    *)
(* validation, the Miner and its entry pool, ownership validation of the   *)
(* Wallet, and the gossip loop of the Node.                                *)
(*                                                                         *)
(* The scenarios share the definitions below:                              *)
(*   Spec        one Chain, one Miner, honest and arbitrary digests;       *)
(*   SpecLedger  callers push entries to the Miner, which mines them;      *)
(*   SpecNet     a tracker, a node and a miner, started at any time,       *)
(*               gossiping chains and neighbours;                          *)
(*   SpecStar    a tracker, two nodes and a miner, started two seconds     *)
(*               apart;                                                    *)
(*   FairStar    SpecStar with the fairness of the node loops, of the      *)
(*               tasks they spawn and of the random choice of neighbours.  *)
(*   SpecAudit   a chain handed to a wallet, constructed, audited with     *)
(*               verify_chain and searched;                                *)
(*   SpecWallet  entries signed and verified by wallets;                   *)
(*   SpecEnter   a node greets its trackers (FairEnter: with the fairness  *)
(*               of its steps and of the trackers);                        *)
(*   SpecRelay   entries queued on the nodes are handed to a miner or      *)
(*               relayed (FairRelay: with the fairness of the node loops   *)
(*               and of their tasks).                                      *)
(*   SpecPurse   a wallet gets coins and submits block entries;            *)
(*   SpecCodec   entries written to the data of a block and read back;     *)
(*   SpecStore   a FileEngine stores and loads payloads;                   *)
(*   SpecHash    Hash values made by each of their constructors;           *)
(*   SpecSearch  the search of Miner::mine, nonce by nonce (FairSearch:    *)
(*               with the fairness of the random draw);                    *)
(*   SpecYield   the listener of a Miner node while a search runs;         *)
(*   SpecPoll    a node polls the chain of a neighbour (FairPoll: with the *)
(*               fairness of both node loops);                             *)
(*   SpecDrop    a node receives datagrams, well formed or not;            *)
(*   SpecTamper  digests are altered before they are submitted;            *)
(*   SpecShare   try_mine tasks share one Miner;                           *)
(*   SpecListen  a node listens to its peers within a cycle (FairListen:   *)
(*               with the fairness of the steps of the node);              *)
(*   SpecFull    the pool of a Miner holds more entries than a block;      *)
(*   SpecGrow    a node is sent chains and is handed the chains it mined;  *)
(*   SpecTie     two nodes hold different chains of one length (FairTie:   *)
(*               with the fairness of both node loops);                    *)
(*   SpecDraw    a node draws the neighbours of a dissemination round.     *)
(***************************************************************************)
EXTENDS Integers, Sequences, FiniteSets, TLC

VARIABLES
    chain,      \* the Chain under test (chain/src/chain.rs: struct Chain)
    miner,      \* the Miner: chain reference, entry pool, wallet
    mined,      \* digests returned by Miner::mine and not yet submitted,
                \* each with the chain reference and the candidate block of
                \* the call
    now,        \* the system clock, in seconds
    last,       \* the last call made and what it returned
    nodes,      \* SpecNet: per node, the fields of struct Node and the
                \* locals of its node_loop
    inbox,      \* SpecNet: datagrams sent to a node and not yet received
    tasks,      \* SpecNet: per node, the chains its try_mine tasks work on
    spawned,    \* SpecNet: the number of try_mine tasks spawned so far
    timers,     \* SpecNet: the sleeps and waits that are running, in the
                \* order in which they started, and the seconds left
    elapsed,    \* SpecNet: the seconds since the tracker was started
                \* (SpecStar: as long as a node is still to be started)
    starts,     \* SpecNet: per node, the seconds at which it may be started
    nlast       \* SpecNet: the chains a node compared in its last step

chainVars == <<chain, miner, mined, now, last>>
netVars == <<nodes, inbox, tasks, spawned, timers, elapsed, starts, nlast>>
vars == <<chain, miner, mined, now, last, nodes, inbox, tasks, spawned, timers,
          elapsed, starts, nlast>>

----------------------------------------------------------------------------
(* Bounds of the exploration. *)

MaxLen == 3         \* a chain is grown to at most this many blocks
MaxNonce == 3       \* nonces are drawn from 0..MaxNonce
MaxTime == 61       \* the clock stops advancing here
MaxPool == 2        \* entries pushed to the pool of the miner
MaxMined == 2       \* digests mined and not yet submitted
MaxCoins == 2       \* calls of mine, each of which mints one coin
MaxTasks == 2       \* try_mine tasks spawned in the network
MaxStart == 2       \* SpecNet: seconds within which every node has greeted
MaxSeconds == 18    \* SpecNet: seconds of gossip explored

----------------------------------------------------------------------------
(* Program constants. *)

INTERVAL == 60
HASH_SIZE == 64
MAX_TRANSACTIONS == 128
TRANSACTION_BLOCK_MEMBER_IDENTIFIER == 0
RECORD_BLOCK_MEMBER_IDENTIFIER == 1

\* The 64 zero bytes that stand for the sender of a mining reward.
ZERO_WALLET_PK == "zero"

Min(a, b) == IF a < b THEN a ELSE b

Last(s) == s[Len(s)]

----------------------------------------------------------------------------
(* Hashes.  A Hash is a string of 64 hexadecimal characters.  SHA-256 is   *)
(* modelled as a collision-free function of the hashed string: the digest  *)
(* of a string is the string itself under the tag "sha", and the number of *)
(* leading '0' characters of its hexadecimal form is a fixed pseudo-random *)
(* function of the string.  The hashed string is a sequence of symbols:    *)
(* <<"h", hash>> for the 64 characters of a hash, <<"e", entry>> for one   *)
(* encoded entry, <<"d", k>> for one decimal digit.                        *)

\* Hash::default(): 64 characters '0'.
HashDefault == <<"zero">>

\* A well-formed hash that is the digest of nothing the program hashes.
BogusHash == <<"bogus">>

Sha256(str) == <<"sha", str>>

RECURSIVE Digits(_)
Digits(n) ==
    IF n < 10 THEN << <<"d", n>> >>
    ELSE Digits(n \div 10) \o << <<"d", n % 10>> >>

\* The hexadecimal digest has HexBase values per character.
HexBase == 16

RECURSIVE HashCode(_), Mix(_, _)
HashCode(h) ==
    IF h[1] = "sha" THEN Mix(h[2], 0)
    ELSE IF h[1] = "zero" THEN 0
    ELSE 9

Mix(str, acc) ==
    IF str = <<>> THEN acc
    ELSE LET s == Head(str)
             code == IF s[1] = "d" THEN s[2]
                     ELSE IF s[1] = "h" THEN HashCode(s[2])
                     ELSE 1 + Len(s[2].fields[3])
         IN  Mix(Tail(str), (acc * 5 + code + 1) % HexBase)

\* The number of leading '0' characters of the hexadecimal form of h.
LeadingZeros(h) ==
    IF h[1] = "zero" THEN HASH_SIZE
    ELSE IF h[1] = "sha"
         THEN LET m == Mix(h[2], 0)
              IN  IF m = 0 THEN 3
                  ELSE IF m \in {1, 2} THEN 2
                  ELSE IF m \in 3..7 THEN 1
                  ELSE 0
         ELSE 0

\* digest_str.starts_with(&"0".repeat(difficulty))
StartsWithZeros(h, difficulty) == LeadingZeros(h) >= difficulty

----------------------------------------------------------------------------
(* Entries.  An Option is a sequence of length 0 (None) or 1 (Some).       *)

None == <<>>
Some(x) == <<x>>

\* Token <-> Hash: the same 64 bytes.
TokenOfHash(h) == h

TransactionNew(sender, receiver, coins) ==
    [block_entry_type_id |-> TRANSACTION_BLOCK_MEMBER_IDENTIFIER,
     sender_pk |-> sender,
     receiver_pk |-> receiver,
     tokens |-> coins,
     signature |-> None]

\* Record::new: a key and a value posted by a wallet; not a tombstone.
RecordNew(poster, key, value, tokens) ==
    [block_entry_type_id |-> RECORD_BLOCK_MEMBER_IDENTIFIER,
     sender_pk |-> poster,
     key |-> key,
     value |-> value,
     tombstone |-> FALSE,
     tokens |-> tokens,
     signature |-> None]

\* The bytes a signature covers: sender, receiver and tokens of a
\* Transaction; poster, key and value of a Record.
GetPayload(entry) ==
    IF entry.block_entry_type_id = RECORD_BLOCK_MEMBER_IDENTIFIER
    THEN <<entry.sender_pk, entry.key, entry.value>>
    ELSE <<entry.sender_pk, entry.receiver_pk, entry.tokens>>

\* An ECDSA signature made with the key pair of `signer` over `payload`.
Signature(signer, payload) == [signer |-> signer, payload |-> payload]

WalletSign(pk, entry) ==
    [entry EXCEPT !.signature = Some(Signature(pk, GetPayload(entry)))]

\* A verification that accepts the signature of any key pair over the
\* payload.
WalletVerifyAnyKey(entry, pub_key) ==
    IF entry.signature # None
    THEN IF entry.signature[1].payload = GetPayload(entry)
         THEN "Ok"
         ELSE "VerificationError"
    ELSE "NoSignatureError"

WalletVerify(entry, pub_key) ==
    IF entry.signature # None
    THEN IF entry.signature[1].signer = pub_key
            /\ entry.signature[1].payload = GetPayload(entry)
         THEN "Ok"
         ELSE "VerificationError"
    ELSE "NoSignatureError"

\* wallet.verify(&entry, pub_key) of the wallet with public key self_pk:
\* the key is pub_key when one is passed, the wallet's own otherwise.
Verify(self_pk, entry, pub_key) ==
    LET key == IF pub_key # None THEN pub_key[1] ELSE self_pk
    IN  WalletVerify(entry, key)

\* The text of an entry in the data of a block, and its parse.
EncodeEntry(entry) ==
    IF entry.block_entry_type_id = RECORD_BLOCK_MEMBER_IDENTIFIER
    THEN [id |-> entry.block_entry_type_id,
          fields |-> <<entry.sender_pk, entry.key, entry.value,
                       entry.tombstone, entry.tokens, entry.signature>>]
    ELSE [id |-> entry.block_entry_type_id,
          fields |-> <<entry.sender_pk, entry.receiver_pk, entry.tokens,
                       entry.signature>>]

\* Transaction::try_from: Some(transaction), or None when the text is not
\* that of a transaction.
DecodeTransaction(text) ==
    IF text.id = TRANSACTION_BLOCK_MEMBER_IDENTIFIER /\ text.fields[3] # <<>>
    THEN Some([block_entry_type_id |-> text.id,
               sender_pk |-> text.fields[1],
               receiver_pk |-> text.fields[2],
               tokens |-> text.fields[3],
               signature |-> text.fields[4]])
    ELSE None

\* Record::try_from: Some(record), or None when the text is not that of a
\* record.
DecodeRecord(text) ==
    IF text.id = RECORD_BLOCK_MEMBER_IDENTIFIER /\ text.fields[5] # <<>>
    THEN Some([block_entry_type_id |-> text.id,
               sender_pk |-> text.fields[1],
               key |-> text.fields[2],
               value |-> text.fields[3],
               tombstone |-> text.fields[4],
               tokens |-> text.fields[5],
               signature |-> text.fields[6]])
    ELSE None

----------------------------------------------------------------------------
(* Blocks.  get_transactions and get_records are the methods of the trait  *)
(* BlockChainBlock (wallet/src/block_chain.rs), which filter the data of   *)
(* the block for its entries of the one kind, in their order.              *)

BlockNew(index, previous_hash, data, hash, timestamp) ==
    [index |-> index,
     previous_hash |-> previous_hash,
     data |-> data,
     timestamp |-> timestamp,
     hash |-> hash,
     nonce |-> 0]

\* format!("{}{}{}{}{}{}", hash, previous_hash, data, timestamp, index, nonce)
StrBlock(block, nonce) ==
    << <<"h", block.hash>>, <<"h", block.previous_hash>> >>
    \o [i \in 1..Len(block.data) |-> <<"e", block.data[i]>>]
    \o Digits(block.timestamp) \o Digits(block.index) \o Digits(nonce)

CalculateHash(block) == Sha256(StrBlock(block, block.nonce))

RECURSIVE GetTransactionsFrom(_)
GetTransactionsFrom(data) ==
    IF data = <<>> THEN <<>>
    ELSE DecodeTransaction(Head(data)) \o GetTransactionsFrom(Tail(data))

GetTransactions(block) == GetTransactionsFrom(block.data)

RECURSIVE GetRecordsFrom(_)
GetRecordsFrom(data) ==
    IF data = <<>> THEN <<>>
    ELSE DecodeRecord(Head(data)) \o GetRecordsFrom(Tail(data))

GetRecords(block) == GetRecordsFrom(block.data)

----------------------------------------------------------------------------
(* Ownership validation (wallet/src/wallet.rs). *)

Ok == [tag |-> "Ok", expected |-> <<>>, got |-> <<>>]
Err(tag, expected, got) == [tag |-> tag, expected |-> expected, got |-> got]

\* The loop over the transactions of one block, for one token: "bad" when
\* the first transaction carrying the token as its first coin has another
\* receiver than the spender, "found" when it has the spender as receiver,
\* "absent" when no transaction of the block carries it.
RECURSIVE ScanTransactions(_, _, _)
ScanTransactions(ts, token, sender) ==
    IF ts = <<>> THEN "absent"
    ELSE IF Head(ts).tokens[1] = token
         THEN IF Head(ts).receiver_pk # sender THEN "bad" ELSE "found"
         ELSE ScanTransactions(Tail(ts), token, sender)

\* The loop over blocks.iter().rev(), from block i down to the first.
RECURSIVE ScanBlocks(_, _, _, _, _)
ScanBlocks(blocks, i, token, sender, coin_found) ==
    IF i = 0 THEN (IF coin_found THEN "found" ELSE "absent")
    ELSE LET r == ScanTransactions(GetTransactions(blocks[i]), token, sender)
         IN  IF r = "bad" THEN "bad"
             ELSE ScanBlocks(blocks, i - 1, token, sender,
                             coin_found \/ r = "found")

\* The loop over the tokens the transaction spends.
RECURSIVE CheckTokensFrom(_, _, _)
CheckTokensFrom(tokens, sender, blocks) ==
    IF tokens = <<>> THEN Ok
    ELSE LET r == ScanBlocks(blocks, Len(blocks), Head(tokens), sender, FALSE)
         IN  IF r = "bad" THEN Err("IncompleteChain", Head(tokens), <<>>)
             ELSE IF r = "absent" THEN Err("InvalidToken", <<>>, <<>>)
             ELSE CheckTokensFrom(Tail(tokens), sender, blocks)

CheckTransactionTokens(transaction, blocks) ==
    CheckTokensFrom(transaction.tokens, transaction.sender_pk, blocks)

----------------------------------------------------------------------------
(* The audit of a chain (wallet/src/wallet.rs: verify_chain). *)

\* Sha256 of get_data(), in hexadecimal.
DataHash(data) == Sha256([i \in 1..Len(data) |-> <<"e", data[i]>>])

\* Step 3: the first transaction, in order, whose signature does not verify
\* under the key of its sender or that fails check_transaction_tokens.
RECURSIVE VerifyTransactions(_, _)
VerifyTransactions(transactions, blocks) ==
    IF transactions = <<>> THEN Ok
    ELSE LET transaction == Head(transactions)
             v == WalletVerify(transaction, transaction.sender_pk)
             t == CheckTransactionTokens(transaction, blocks)
         IN  IF v # "Ok" THEN Err("SignatureError", v, <<>>)
             ELSE IF t.tag # "Ok" THEN Err("TransactionErr", t.tag, <<>>)
             ELSE VerifyTransactions(Tail(transactions), blocks)

\* Step 4: the first record whose signature does not verify.
RECURSIVE VerifyRecords(_)
VerifyRecords(records) ==
    IF records = <<>> THEN Ok
    ELSE LET v == WalletVerify(Head(records), Head(records).sender_pk)
         IN  IF v # "Ok" THEN Err("SignatureError", v, <<>>)
             ELSE VerifyRecords(Tail(records))

\* The loop over get_blocks().iter().rev(): block i, with the hash the loop
\* kept from the block after it.
RECURSIVE VerifyBlocks(_, _, _)
VerifyBlocks(blocks, i, previous_block_hash) ==
    IF i = 0 THEN Ok
    ELSE LET block == blocks[i]
             digest_str == DataHash(block.data)
             ts == VerifyTransactions(GetTransactions(block), blocks)
             rs == VerifyRecords(GetRecords(block))
         IN  IF digest_str # block.hash
             THEN Err("BlockCheckError", digest_str, block.hash)
             ELSE IF i # Len(blocks) /\ digest_str # previous_block_hash
             THEN Err("BlockCheckError", previous_block_hash, digest_str)
             ELSE IF ts.tag # "Ok" THEN ts
             ELSE IF rs.tag # "Ok" THEN rs
             ELSE VerifyBlocks(blocks, i - 1, block.hash)

VerifyChain(c) ==
    VerifyBlocks(c.blocks, Len(c.blocks), c.blocks[Len(c.blocks)].previous_hash)

----------------------------------------------------------------------------
(* The Chain (chain/src/chain.rs). *)

GetLastBlock(self) == Last(self.blocks)

\* check_block_data without the comparison of previous_hash with the hash of
\* the tail.
CheckBlockDataNoLink(self, data, previous_hash, block_hash, block_index) ==
    LET digest_str == Sha256(data)
    IN  IF block_index # self.len + 1
        THEN Err("WrongIndex", self.len + 1, block_index)
        ELSE IF ~StartsWithZeros(digest_str, self.difficulty)
        THEN Err("InvalidPrefix", self.difficulty, <<>>)
        ELSE IF digest_str # block_hash
        THEN Err("WrongHash", digest_str, block_hash)
        ELSE Ok

\* check_block_data expecting the length of the chain as the next index.
CheckBlockDataLenIndex(self, data, previous_hash, block_hash, block_index) ==
    LET digest_str == Sha256(data)
        last_chain_hash == Last(self.blocks).hash
    IN  IF block_index # self.len
        THEN Err("WrongIndex", self.len, block_index)
        ELSE IF ~StartsWithZeros(digest_str, self.difficulty)
        THEN Err("InvalidPrefix", self.difficulty, <<>>)
        ELSE IF previous_hash # last_chain_hash
        THEN Err("NotInChain", previous_hash, last_chain_hash)
        ELSE IF digest_str # block_hash
        THEN Err("WrongHash", digest_str, block_hash)
        ELSE Ok

CheckBlockData(self, data, previous_hash, block_hash, block_index) ==
    LET digest_str == Sha256(data)
        last_chain_hash == GetLastBlock(self).hash
    IN  IF block_index # self.len + 1
        THEN Err("WrongIndex", self.len + 1, block_index)
        ELSE IF ~StartsWithZeros(digest_str, self.difficulty)
        THEN Err("InvalidPrefix", self.difficulty, <<>>)
        ELSE IF previous_hash # last_chain_hash
        THEN Err("NotInChain", previous_hash, last_chain_hash)
        ELSE IF digest_str # block_hash
        THEN Err("WrongHash", digest_str, block_hash)
        ELSE Ok

\* check_difficulty that also lowers the difficulty after a slow block.
CheckDifficultyRetarget(self, block_timestamp) ==
    IF block_timestamp < GetLastBlock(self).timestamp + INTERVAL
    THEN [self EXCEPT !.difficulty = self.difficulty + 1]
    ELSE [self EXCEPT !.difficulty = self.difficulty - 1]

\* A check that also counts a block that came exactly INTERVAL seconds
\* after the tail as early.
CheckDifficultyInclusive(self, block_timestamp) ==
    IF block_timestamp <= Last(self.blocks).timestamp + INTERVAL
    THEN [self EXCEPT !.difficulty = @ + 1]
    ELSE self

CheckDifficulty(self, block_timestamp) ==
    IF block_timestamp < GetLastBlock(self).timestamp + INTERVAL
    THEN [self EXCEPT !.difficulty = self.difficulty + 1]
    ELSE self

\* The first offset recorded for `key` in `offsets`.
RECURSIVE FindOffset(_, _)
FindOffset(offsets, key) ==
    IF Head(offsets).key = key THEN Head(offsets).offset
    ELSE FindOffset(Tail(offsets), key)

\* The index is a map from record key to offset, kept as a set of pairs.
UpdateIndex(self, offsets) ==
    LET modified_keys == {offsets[i].key : i \in 1..Len(offsets)}
        new_index ==
            {[key |-> e.key,
              offset |-> FindOffset(offsets, e.key) + self.last_block_offset] :
                e \in {x \in self.index : x.key \in modified_keys}}
    IN  [self EXCEPT !.index = new_index]

\* Pushes the block, counts it and refreshes the index.
AppendBlock(self, mining_digest) ==
    UpdateIndex([self EXCEPT !.blocks = Append(self.blocks, mining_digest.block),
                             !.len = self.len + 1],
                mining_digest.record_offsets)

\* add_block that validates a block against the block of the chain it names
\* as its predecessor, wherever that block is, and appends it.
AddBlockOnParent(self, mining_digest) ==
    LET block == mining_digest.block
        nonce == mining_digest.nonce
        parents == {i \in 1..Len(self.blocks) :
                       self.blocks[i].hash = block.previous_hash}
    IN  IF block.index # 0
        THEN IF parents = {}
             THEN [chain |-> self,
                   res |-> Err("NotInChain", block.previous_hash,
                               GetLastBlock(self).hash)]
             ELSE LET at == CHOOSE i \in parents : \A j \in parents : j <= i
                      digest_str == Sha256(StrBlock(self.blocks[at], nonce))
                  IN  IF block.index # at + 1
                      THEN [chain |-> self,
                            res |-> Err("WrongIndex", at + 1, block.index)]
                      ELSE IF ~StartsWithZeros(digest_str, self.difficulty)
                      THEN [chain |-> self,
                            res |-> Err("InvalidPrefix", self.difficulty, <<>>)]
                      ELSE IF digest_str # block.hash
                      THEN [chain |-> self,
                            res |-> Err("WrongHash", digest_str, block.hash)]
                      ELSE [chain |-> AppendBlock(
                                          CheckDifficulty(self, block.timestamp),
                                          mining_digest),
                            res |-> Ok]
        ELSE [chain |-> AppendBlock(self, mining_digest), res |-> Ok]

\* add_block that restates the submitted block, not the tail, with the nonce.
AddBlockOwnFields(self, mining_digest) ==
    LET block == mining_digest.block
        nonce == mining_digest.nonce
    IN  IF block.index # 0
        THEN LET str_block == StrBlock([block EXCEPT !.hash = HashDefault], nonce)
                 res == CheckBlockData(self, str_block, block.previous_hash,
                                       block.hash, block.index)
             IN  IF res.tag # "Ok"
                 THEN [chain |-> self, res |-> res]
                 ELSE [chain |-> AppendBlock(CheckDifficulty(self, block.timestamp),
                                             mining_digest),
                       res |-> Ok]
        ELSE [chain |-> AppendBlock(self, mining_digest), res |-> Ok]

\* add_block that adjusts the difficulty before it validates the block.
AddBlockEagerDifficulty(self, mining_digest) ==
    LET block == mining_digest.block
        nonce == mining_digest.nonce
    IN  IF block.index # 0
        THEN LET last_block == GetLastBlock(self)
                 str_block == StrBlock(last_block, nonce)
                 adjusted == CheckDifficulty(self, block.timestamp)
                 res == CheckBlockData(self, str_block, block.previous_hash,
                                       block.hash, block.index)
             IN  IF res.tag # "Ok"
                 THEN [chain |-> adjusted, res |-> res]
                 ELSE [chain |-> AppendBlock(adjusted, mining_digest), res |-> Ok]
        ELSE [chain |-> AppendBlock(self, mining_digest), res |-> Ok]

\* add_block that skips its checks for a block of index 0 only on a chain
\* that holds no block yet.
AddBlockGenesisOnce(self, mining_digest) ==
    LET block == mining_digest.block
        nonce == mining_digest.nonce
    IN  IF block.index # 0 \/ self.len # 0
        THEN LET last_block == GetLastBlock(self)
                 str_block == StrBlock(last_block, nonce)
                 res == CheckBlockData(self, str_block, block.previous_hash,
                                       block.hash, block.index)
             IN  IF res.tag # "Ok"
                 THEN [chain |-> self, res |-> res]
                 ELSE [chain |-> AppendBlock(CheckDifficulty(self, block.timestamp),
                                             mining_digest),
                       res |-> Ok]
        ELSE [chain |-> AppendBlock(self, mining_digest), res |-> Ok]

\* add_block: the chain afterwards and the Result returned.
AddBlock(self, mining_digest) ==
    LET block == mining_digest.block
        nonce == mining_digest.nonce
    IN  IF block.index # 0
        THEN LET last_block == GetLastBlock(self)
                 str_block == StrBlock(last_block, nonce)
                 res == CheckBlockData(self, str_block, block.previous_hash,
                                       block.hash, block.index)
             IN  IF res.tag # "Ok"
                 THEN [chain |-> self, res |-> res]
                 ELSE [chain |-> AppendBlock(CheckDifficulty(self, block.timestamp),
                                             mining_digest),
                       res |-> Ok]
        ELSE [chain |-> AppendBlock(self, mining_digest), res |-> Ok]

MiningDigestNew(record_offsets, block, nonce) ==
    [record_offsets |-> record_offsets, block |-> block, nonce |-> nonce]

\* A construction whose genesis block carries the hash of its own fields.
ChainNewAddHashed(timestamp) ==
    LET plain == BlockNew(0, HashDefault, <<>>, HashDefault, timestamp)
        genesis_block == [plain EXCEPT !.hash = CalculateHash(plain)]
        empty == [index |-> {}, last_block_offset |-> 0, blocks |-> <<>>,
                  len |-> 0, difficulty |-> 1]
    IN  AddBlock(empty, MiningDigestNew(<<>>, genesis_block, 0))

\* The add_block of the genesis block in Chain::new() at time `timestamp`:
\* the chain afterwards and the Result that new() unwraps.
ChainNewAdd(timestamp) ==
    LET genesis_block == BlockNew(0, HashDefault, <<>>, HashDefault, timestamp)
        empty == [index |-> {}, last_block_offset |-> 0, blocks |-> <<>>,
                  len |-> 0, difficulty |-> 1]
    IN  AddBlock(empty, MiningDigestNew(<<>>, genesis_block, 0))

\* Chain::new() at time `timestamp`.
ChainNew(timestamp) == ChainNewAdd(timestamp).chain

\* A comparison that also lets a chain of equal length win.
ChainAtLeast(a, b) == a.len >= b.len

\* impl Ord for Chain: chains compare by their len.
ChainGreater(a, b) == a.len > b.len

\* get_records().iter().rev().find(|r| r.get_key() == key)
RECURSIVE FindLastRecord(_, _)
FindLastRecord(records, key) ==
    IF records = <<>> THEN None
    ELSE IF Last(records).key = key THEN Some(Last(records))
    ELSE FindLastRecord(SubSeq(records, 1, Len(records) - 1), key)

\* The loop `for block in &self.blocks` of search, from block i on.
RECURSIVE SearchFrom(_, _, _)
SearchFrom(blocks, i, key) ==
    IF i > Len(blocks) THEN None
    ELSE LET record_match == FindLastRecord(GetRecords(blocks[i]), key)
         IN  IF record_match # None
             THEN IF record_match[1].tombstone THEN None
                  ELSE Some(record_match[1].value)
             ELSE SearchFrom(blocks, i + 1, key)

Search(self, key) == SearchFrom(self.blocks, 1, key)

----------------------------------------------------------------------------
(* The Miner (chain/src/miner/miner.rs).  Its wallet has public key "M". *)

MinerPk == "M"

MinerNew(c) == [chain |-> c, entries |-> <<>>, coins |-> <<>>]

SetChainMeta(self, c) == [self EXCEPT !.chain = c]

PushEntry(self, entry) == [self EXCEPT !.entries = Append(self.entries, entry)]

FilterEntries(self) ==
    [self EXCEPT !.entries =
        SelectSeq(self.entries,
                  LAMBDA e : CheckTransactionTokens(e, self.chain.blocks).tag = "Ok")]

\* create_new_block that credits the wallet with the hash of the block mined
\* on, not with that of the new block.
CreateNewBlockCreditsParent(self, hash, previous_hash, timestamp) ==
    LET index == self.chain.len + 1
        cap == Min(Len(self.entries), MAX_TRANSACTIONS)
        capped_entries == SubSeq(self.entries, 1, cap)
        data == [i \in 1..cap |-> EncodeEntry(capped_entries[i])]
    IN  [miner |-> [self EXCEPT
                        !.entries = SubSeq(self.entries, cap + 1, Len(self.entries)),
                        !.coins = Append(self.coins, TokenOfHash(previous_hash))],
         block |-> BlockNew(index, previous_hash, data, hash, timestamp)]

\* create_new_block that gives the block the length of the chain as index.
CreateNewBlockLenIndex(self, hash, previous_hash, timestamp) ==
    LET cap == Min(Len(self.entries), MAX_TRANSACTIONS)
        capped_entries == SubSeq(self.entries, 1, cap)
        data == [i \in 1..cap |-> EncodeEntry(capped_entries[i])]
    IN  [miner |-> [self EXCEPT
                        !.entries = SubSeq(self.entries, cap + 1, Len(self.entries)),
                        !.coins = Append(self.coins, TokenOfHash(hash))],
         block |-> BlockNew(self.chain.len, previous_hash, data, hash, timestamp)]

\* create_new_block at time `timestamp`: the miner afterwards and the block.
CreateNewBlock(self, hash, previous_hash, timestamp) ==
    LET index == self.chain.len + 1
        cap == Min(Len(self.entries), MAX_TRANSACTIONS)
        capped_entries == SubSeq(self.entries, 1, cap)
        data == [i \in 1..cap |-> EncodeEntry(capped_entries[i])]
    IN  [miner |-> [self EXCEPT
                        !.entries = SubSeq(self.entries, cap + 1, Len(self.entries)),
                        !.coins = Append(self.coins, TokenOfHash(hash))],
         block |-> BlockNew(index, previous_hash, data, hash, timestamp)]

\* A digest that mine(block) returned, with the chain the miner referred to
\* and the candidate block of the call.
Against(digest, c, block) == [digest |-> digest, chain |-> c, block |-> block]

\* Whether the search of mine(block) can stop at `nonce`.
MineFinds(self, block, nonce) ==
    StartsWithZeros(CalculateHash([block EXCEPT !.nonce = nonce]),
                    self.chain.difficulty)

\* mine(block) when the search stops at `nonce`, at time `timestamp`: the
\* miner afterwards and the digest returned.
Mine(self, block, nonce, timestamp) ==
    LET filtered == FilterEntries(self)
        str_digest == CalculateHash([block EXCEPT !.nonce = nonce])
        prize_transaction ==
            TransactionNew(ZERO_WALLET_PK, MinerPk, <<TokenOfHash(str_digest)>>)
        signed_prize == WalletSign(MinerPk, prize_transaction)
        pushed == PushEntry(filtered, signed_prize)
        created == CreateNewBlock(pushed, str_digest, block.hash, timestamp)
    IN  [miner |-> created.miner,
         digest |-> MiningDigestNew(<<>>, created.block, nonce)]

----------------------------------------------------------------------------
(* The scenario Spec: one Chain, one Miner, a clock.  Callers push entries *)
(* to the miner, point it at the chain, mine on the last block of the      *)
(* chain and submit digests, mined or made up, to the chain.               *)

Wallets == {MinerPk, "A"}

\* The tokens recorded in the blocks of a chain.
TokensIn(blocks) ==
    UNION {{t.tokens[k] : k \in 1..Len(t.tokens)} :
             t \in UNION {{GetTransactions(blocks[i])[j] :
                             j \in 1..Len(GetTransactions(blocks[i]))} :
                          i \in 1..Len(blocks)}}

\* The token lists a pushed entry may spend: one or two different tokens,
\* recorded in the chain or unknown to it.
TokenLists(blocks) ==
    LET toks == TokensIn(blocks) \cup {BogusHash}
    IN  {<<a>> : a \in toks}
        \cup {<<p[1], p[2]>> :
                p \in {q \in TokensIn(blocks) \X TokensIn(blocks) : q[1] # q[2]}}

\* The entries a caller may push: signed by the sender, unsigned, or signed
\* with the key of another wallet.
EntryChoices(blocks) ==
    LET plain == {TransactionNew(s, r, toks) :
                    s \in Wallets, r \in Wallets, toks \in TokenLists(blocks)}
    IN  plain
        \cup {WalletSign(e.sender_pk, e) : e \in plain}
        \cup {WalletSign(CHOOSE w \in Wallets : w # e.sender_pk, e) : e \in plain}

\* The digest of an honest miner that holds no entries: the block follows
\* the tail of c and its hash is that of the tail restated with the nonce.
PlainDigest(c, nonce, t) ==
    LET tail == GetLastBlock(c)
    IN  MiningDigestNew(<<>>,
                        BlockNew(c.len + 1, tail.hash, <<>>,
                                 Sha256(StrBlock(tail, nonce)), t),
                        nonce)

\* The digests a caller may make up for a chain c at time t: the plain
\* digest of every nonce, that digest with a wrong previous hash, with a
\* wrong hash or with the hash of its own fields, one with the index of the
\* tail, and one with index 0 and hashes that belong to no block.
DigestChoices(c, t) ==
    UNION {LET d == PlainDigest(c, n, t)
           IN  {d,
                [d EXCEPT !.block.previous_hash = BogusHash],
                [d EXCEPT !.block.hash = BogusHash],
                [d EXCEPT !.block.hash =
                    Sha256(StrBlock([d.block EXCEPT !.hash = HashDefault], n))]} :
           n \in 0..MaxNonce}
    \cup {[PlainDigest(c, 0, t) EXCEPT !.block.index = c.len],
          [PlainDigest(c, 0, t) EXCEPT
              !.record_offsets = <<[key |-> "k", offset |-> 0]>>,
              !.block.index = 0,
              !.block.previous_hash = BogusHash,
              !.block.hash = BogusHash]}

NetIdle == <<>>

Init ==
    /\ now = 0
    /\ chain = ChainNew(0)
    /\ miner = MinerNew(ChainNew(0))
    /\ mined = {}
    /\ last = [op |-> "new", res |-> Ok]
    /\ nodes = NetIdle
    /\ inbox = NetIdle
    /\ tasks = NetIdle
    /\ spawned = 0
    /\ timers = NetIdle
    /\ elapsed = 0
    /\ starts = NetIdle
    /\ nlast = NetIdle

\* Time passes.
Tick ==
    /\ \E d \in {INTERVAL - 1, INTERVAL} :
          /\ now + d <= MaxTime
          /\ now' = now + d
    /\ last' = [op |-> "tick", res |-> Ok]
    /\ UNCHANGED <<chain, miner, mined, netVars>>

\* miner.push_entry(entry)
DoPushEntry ==
    /\ Len(miner.entries) < MaxPool
    /\ \E e \in EntryChoices(chain.blocks) :
          /\ miner' = PushEntry(miner, e)
          /\ last' = [op |-> "push_entry", res |-> Ok]
    /\ UNCHANGED <<chain, mined, now, netVars>>

\* miner.set_chain_meta(chain.clone())
DoSetChainMeta ==
    /\ miner.chain # chain
    /\ miner' = SetChainMeta(miner, chain)
    /\ last' = [op |-> "set_chain_meta", res |-> Ok]
    /\ UNCHANGED <<chain, mined, now, netVars>>

\* miner.mine(chain.get_last_block()) returns a digest.
DoMine ==
    /\ Cardinality(mined) < MaxMined
    /\ Len(miner.coins) < MaxCoins
    /\ miner.chain.len < MaxLen
    /\ \E nonce \in 0..MaxNonce :
          /\ MineFinds(miner, GetLastBlock(chain), nonce)
          /\ LET r == Mine(miner, GetLastBlock(chain), nonce, now)
             IN  /\ miner' = r.miner
                 /\ mined' = mined \cup {Against(r.digest, miner.chain,
                                                  GetLastBlock(chain))}
                 /\ last' = [op |-> "mine", digest |-> r.digest, pre |-> miner,
                             res |-> Ok]
    /\ UNCHANGED <<chain, now, netVars>>

\* chain.add_block(digest) with a digest the miner returned.
DoAddMined ==
    /\ \E m \in mined :
          LET r == AddBlock(chain, m.digest)
          IN  /\ chain' = r.chain
              /\ mined' = mined \ {m}
              /\ last' = [op |-> "add_block", digest |-> m.digest, pre |-> chain,
                          res |-> r.res, against |-> {m}]
    /\ UNCHANGED <<miner, now, netVars>>

\* chain.add_block(digest) with a digest made up by the caller.
DoAddArbitrary ==
    /\ chain.len < MaxLen
    /\ \E d \in DigestChoices(chain, now) :
          LET r == AddBlock(chain, d)
          IN  /\ chain' = r.chain
              /\ last' = [op |-> "add_block", digest |-> d, pre |-> chain,
                          res |-> r.res, against |-> {}]
    /\ UNCHANGED <<miner, mined, now, netVars>>

Next ==
    \/ Tick
    \/ DoSetChainMeta
    \/ DoMine
    \/ DoAddMined
    \/ DoAddArbitrary

Spec == Init /\ [][Next]_vars

\* mine(miner, chain) of the node (network/src/node/node.rs) when the search
\* stops at `nonce`: the miner is pointed at the chain, mines on its last
\* block and the digest is added to the chain, whatever add_block returns.
NodeMine(m, c, nonce, timestamp) ==
    LET pointed == SetChainMeta(m, c)
        r == Mine(pointed, GetLastBlock(c), nonce, timestamp)
        a == AddBlock(c, r.digest)
    IN  [miner |-> r.miner, chain |-> a.chain, digest |-> r.digest, res |-> a.res]

\* The chain is extended by mine(miner, chain).
DoNodeMine ==
    /\ chain.len < MaxLen
    /\ \E nonce \in 0..MaxNonce :
          /\ MineFinds(SetChainMeta(miner, chain), GetLastBlock(chain), nonce)
          /\ LET r == NodeMine(miner, chain, nonce, now)
             IN  /\ miner' = r.miner
                 /\ chain' = r.chain
                 /\ last' = [op |-> "node_mine", digest |-> r.digest,
                             pre |-> chain, res |-> r.res]
    /\ UNCHANGED <<mined, now, netVars>>

\* The scenario SpecLedger: callers push entries of their choice to the
\* miner, which mines them into blocks of the chain.
NextLedger ==
    \/ Tick
    \/ DoPushEntry
    \/ DoNodeMine

SpecLedger == Init /\ [][NextLedger]_vars

----------------------------------------------------------------------------
(* Properties of add_block, checked under Spec. *)

IsAddBlock == last.op = "add_block"
Checked == IsAddBlock /\ last.digest.block.index # 0

\* The hash add_block recomputes: SHA-256 of the fields of the tail of the
\* chain before the call, followed by the nonce of the digest.
TailRestated ==
    LET tail == last.pre.blocks[Len(last.pre.blocks)]
    IN  Sha256(<< <<"h", tail.hash>>, <<"h", tail.previous_hash>> >>
               \o [i \in 1..Len(tail.data) |-> <<"e", tail.data[i]>>]
               \o Digits(tail.timestamp) \o Digits(tail.index)
               \o Digits(last.digest.nonce))

\* C1: for a digest whose block has an index other than 0, add_block
\* succeeds, appending the block, if and only if the index is the expected
\* next index, the hash of the restated tail starts with `difficulty`
\* zeros, previous_hash is the hash of the tail, and the hash of the
\* restated tail is the hash of the block.
C1_AddBlockIffChecks ==
    Checked =>
        LET block == last.digest.block
            tail == last.pre.blocks[Len(last.pre.blocks)]
            passes == /\ block.index = last.pre.len + 1
                      /\ LeadingZeros(TailRestated) >= last.pre.difficulty
                      /\ block.previous_hash = tail.hash
                      /\ TailRestated = block.hash
        IN  /\ (last.res.tag = "Ok") <=> passes
            /\ passes => chain.blocks = Append(last.pre.blocks, block)

\* A checked digest was accepted at difficulty 2.
C1_Witness ==
    /\ Checked
    /\ last.res.tag = "Ok"
    /\ last.pre.difficulty = 2

\* C2: when add_block returns a BlockCheckError, the chain (blocks, len,
\* difficulty, record index) is what it was before the call.
C2_RejectedLeavesChain ==
    (IsAddBlock /\ last.res.tag # "Ok") => chain = last.pre

\* A digest was rejected for its hash, after the other checks passed.
C2_Witness ==
    /\ IsAddBlock
    /\ last.res.tag = "WrongHash"
    /\ last.digest.block.timestamp < Last(last.pre.blocks).timestamp + INTERVAL

\* C3: a successful add_block increases len by exactly 1, and no add_block,
\* successful or not, decreases the difficulty.
C3_LenAndDifficultyMonotone ==
    IsAddBlock =>
        /\ last.res.tag = "Ok" => chain.len = last.pre.len + 1
        /\ chain.difficulty >= last.pre.difficulty

\* A block that came INTERVAL seconds after the tail was accepted.
C3_Witness ==
    /\ Checked
    /\ last.res.tag = "Ok"
    /\ last.digest.block.timestamp >= Last(last.pre.blocks).timestamp + INTERVAL
    /\ chain.len = last.pre.len + 1
    /\ chain.difficulty = last.pre.difficulty

\* C4 as claimed: in every chain reached by add_block calls with arbitrary
\* digests, every block after the first records the hash of the block
\* before it as its previous_hash.
C4_Original ==
    \A i \in 2..Len(chain.blocks) :
        chain.blocks[i].previous_hash = chain.blocks[i - 1].hash

\* C4 amended: in every chain reached by add_block calls with arbitrary
\* digests, every block after the first whose index is not 0 records the
\* hash of the block before it as its previous_hash.
C4_CheckedBlocksLinked ==
    \A i \in 2..Len(chain.blocks) :
        chain.blocks[i].index # 0 =>
            chain.blocks[i].previous_hash = chain.blocks[i - 1].hash

\* A checked block follows a block that was appended unchecked.
C4_Witness ==
    /\ Len(chain.blocks) = 3
    /\ chain.blocks[2].index = 0
    /\ chain.blocks[3].index # 0

C29_IndexZeroUnchecked ==
    (IsAddBlock /\ last.digest.block.index = 0) =>
        /\ last.res.tag = "Ok"
        /\ chain.blocks = Append(last.pre.blocks, last.digest.block)
        /\ chain.len = last.pre.len + 1
        /\ chain.difficulty = last.pre.difficulty

\* A block of index 0 that names no block of the chain was added to a
\* chain of more than one block and of difficulty above 1.
C29_Witness ==
    /\ IsAddBlock
    /\ last.digest.block.index = 0
    /\ last.pre.len >= 2
    /\ last.pre.difficulty >= 2
    /\ last.digest.block.previous_hash # Last(last.pre.blocks).hash
    /\ last.res.tag = "Ok"
    /\ chain.len = last.pre.len + 1

----------------------------------------------------------------------------
(* Properties of the digests of the miner, checked under Spec. *)

BlockCheckErrors == {"WrongIndex", "InvalidPrefix", "NotInChain", "WrongHash"}

\* The last call submitted a digest of the miner to the chain the miner
\* referred to when it mined it, on the last block of that chain.
SubmittedToSnapshot ==
    /\ last.op = "add_block"
    /\ \E m \in last.against :
          m.chain = last.pre /\ m.block = GetLastBlock(last.pre)

\* C11: of two digests mined against the same snapshot of the chain, same
\* chain reference and same last block, and submitted to that chain, the one
\* submitted first is accepted and appended, and the other is then rejected
\* with a BlockCheckError and leaves the chain as it is: one block is
\* appended.
C11_RaceHasOneWinner ==
    SubmittedToSnapshot =>
        /\ last.res.tag = "Ok"
        /\ chain.blocks = Append(last.pre.blocks, last.digest.block)
        /\ \A m \in last.against, other \in mined :
              (other.chain = m.chain /\ other.block = m.block) =>
                  LET r == AddBlock(chain, other.digest)
                  IN  /\ r.res.tag \in BlockCheckErrors
                      /\ r.chain = chain

\* The loser of a race has been submitted and rejected: the chain it was
\* mined against has since grown by a block of the miner on the same
\* snapshot.
C11_Witness ==
    /\ last.op = "add_block"
    /\ last.res.tag \in BlockCheckErrors
    /\ chain = last.pre
    /\ \E m \in last.against :
          /\ last.pre.len = m.chain.len + 1
          /\ SubSeq(last.pre.blocks, 1, m.chain.len) = m.chain.blocks
          /\ m.block = GetLastBlock(m.chain)
          /\ GetLastBlock(last.pre).previous_hash = m.block.hash
          /\ GetLastBlock(last.pre).index = last.digest.block.index
          /\ GetTransactions(GetLastBlock(last.pre)) # <<>>
          /\ GetLastBlock(last.pre) # last.digest.block

\* C12: the digest mine returns when the miner refers to chain C and mines on
\* the last block of C is accepted by add_block of C, and C grows by one
\* block; so it is on a fresh chain, whose length becomes 2, and in every
\* later round once the miner refers to the chain again.
C12_MinedDigestAccepted ==
    SubmittedToSnapshot =>
        /\ last.res.tag = "Ok"
        /\ chain.len = last.pre.len + 1
        /\ last.pre.len = 1 => chain.len = 2

\* A second round: the digest mined on a chain of two blocks, the second of
\* them mined too, has been accepted.
C12_Witness ==
    /\ SubmittedToSnapshot
    /\ last.res.tag = "Ok"
    /\ last.pre.len = 2
    /\ GetTransactions(last.pre.blocks[2]) # <<>>
    /\ chain.len = 3

\* C13: a call of mine that returns a digest adds one Token to the wallet of
\* the miner, the hash of the block of the digest, and leaves the Tokens the
\* wallet held; after the first mine of a fresh miner the wallet holds one
\* Token.
C13_MineCreditsBlockHash ==
    last.op = "mine" =>
        /\ miner.coins = Append(last.pre.coins,
                                TokenOfHash(last.digest.block.hash))
        /\ last.pre.coins = <<>> => Len(miner.coins) = 1

\* The miner has mined for the second time.
C13_Witness ==
    /\ last.op = "mine"
    /\ Len(last.pre.coins) = 1
    /\ Len(miner.coins) = 2
    /\ miner.coins[2] = last.digest.block.hash

----------------------------------------------------------------------------
(* Properties of ownership validation and of the pool of the miner,       *)
(* checked under SpecLedger.                                               *)

RECURSIVE AllTransactions(_)
AllTransactions(blocks) ==
    IF blocks = <<>> THEN <<>>
    ELSE GetTransactions(Head(blocks)) \o AllTransactions(Tail(blocks))

Carries(t, token) == \E k \in 1..Len(t.tokens) : t.tokens[k] = token

\* The receiver of the most recent recorded transaction that carries the
\* token, if any transaction does.
LastRecipient(blocks, token) ==
    LET carriers == SelectSeq(AllTransactions(blocks), LAMBDA t : Carries(t, token))
    IN  IF carriers = <<>> THEN None ELSE Some(Last(carriers).receiver_pk)

\* The transactions a wallet may ask to validate against the chain.
SpendChoices(blocks) ==
    {TransactionNew(s, "B", toks) :
        s \in Wallets \cup {"B"}, toks \in TokenLists(blocks)}

\* C6: when the chain records a token as last transferred to wallet B, a
\* transaction spending that token from another sender fails ownership
\* validation, and a transaction spending a token that is in no block fails,
\* as an invalid token when it is the only token spent.
C6_DoubleSpendRejected ==
    \A tx \in SpendChoices(chain.blocks) :
        \A k \in 1..Len(tx.tokens) :
            LET owner == LastRecipient(chain.blocks, tx.tokens[k])
                res == CheckTransactionTokens(tx, chain.blocks)
            IN  /\ (owner # None /\ owner[1] # tx.sender_pk) => res.tag # "Ok"
                /\ owner = None =>
                      /\ res.tag # "Ok"
                      /\ Len(tx.tokens) = 1 => res.tag = "InvalidToken"

\* What C7 says check_transaction_tokens returns for the tokens spent, taken
\* in order.
RECURSIVE OwnershipVerdict(_, _, _)
OwnershipVerdict(tokens, sender, blocks) ==
    IF tokens = <<>> THEN "Ok"
    ELSE LET owner == LastRecipient(blocks, Head(tokens))
         IN  IF owner = None THEN "InvalidToken"
             ELSE IF owner[1] # sender THEN "IncompleteChain"
             ELSE OwnershipVerdict(Tail(tokens), sender, blocks)

\* C7: check_transaction_tokens returns Ok exactly when the last recorded
\* recipient of every token spent is the sender, InvalidToken for a token
\* no recorded transaction carries, and IncompleteChain for a token whose
\* last recorded recipient is another wallet; so a token that changed hands
\* several times is spendable by its latest recipient.
C7_LastRecipientSpends ==
    \A tx \in SpendChoices(chain.blocks) :
        CheckTransactionTokens(tx, chain.blocks).tag
            = OwnershipVerdict(tx.tokens, tx.sender_pk, chain.blocks)

\* C30: a mined block holds no two entries that spend the same token: of
\* two transactions of the pool that spend a token, at most one is in the
\* data of the block the miner produced.
C30_NoTokenSpentTwiceInBlock ==
    last.op = "node_mine" =>
        LET ts == GetTransactions(last.digest.block)
        IN  \A i \in 1..Len(ts), j \in 1..Len(ts) :
                i # j => ~\E token \in TokensIn(<<last.digest.block>>) :
                            Carries(ts[i], token) /\ Carries(ts[j], token)

\* C8: no entry that reached the miner unsigned, or with a signature that
\* does not verify under the public key of its sender, is in the data of a
\* block the miner produced.
C8_OnlySignedEntriesMined ==
    last.op = "node_mine" =>
        \A i \in 1..Len(GetTransactions(last.digest.block)) :
            LET e == GetTransactions(last.digest.block)[i]
            IN  e.sender_pk # ZERO_WALLET_PK => WalletVerify(e, e.sender_pk) = "Ok"

----------------------------------------------------------------------------
(* The scenario SpecAudit: a chain as a wallet may be handed it, built     *)
(* block by block of signed and unsigned transactions and records, with    *)
(* hashes that are those of the data or not and links to the block before  *)
(* or not, or constructed anew.  The chain is audited with verify_chain    *)
(* and searched.                                                           *)

MaxAudit == 2       \* blocks of an audited chain

AuditToken == TokenOfHash(HashDefault)

AuditKeys == {"k", "absent"}

\* The data of a block of an audited chain.
AuditData ==
    LET paid == TransactionNew(MinerPk, MinerPk, <<AuditToken>>)
        taken == TransactionNew("A", MinerPk, <<AuditToken>>)
        r1 == RecordNew(MinerPk, "k", "v1", <<AuditToken>>)
        r2 == RecordNew(MinerPk, "k", "v2", <<AuditToken>>)
        dead == [r1 EXCEPT !.tombstone = TRUE]
    IN  {<<>>,
         <<EncodeEntry(WalletSign(MinerPk, paid))>>,
         <<EncodeEntry(paid)>>,
         <<EncodeEntry(WalletSign("A", taken))>>,
         <<EncodeEntry(WalletSign(MinerPk, r1))>>,
         <<EncodeEntry(r2)>>,
         <<EncodeEntry(WalletSign(MinerPk, dead))>>,
         <<EncodeEntry(WalletSign(MinerPk, r1)),
           EncodeEntry(WalletSign(MinerPk, r2))>>}

\* The blocks that may follow the blocks of an audited chain.
AuditBlocks(blocks) ==
    UNION {{BlockNew(Len(blocks) + 1, previous_hash, data, hash, 0) :
              hash \in {DataHash(data), BogusHash},
              previous_hash \in {BogusHash}
                  \cup (IF blocks = <<>> THEN {HashDefault}
                        ELSE {Last(blocks).hash})} :
           data \in AuditData}

\* A chain of the given blocks.
AuditChain(blocks) ==
    [ChainNew(0) EXCEPT !.blocks = blocks, !.len = Len(blocks)]

InitAudit ==
    /\ now = 0
    /\ chain \in {ChainNew(0)}
                 \cup {AuditChain(<<b>>) : b \in AuditBlocks(<<>>)}
    /\ miner = MinerNew(ChainNew(0))
    /\ mined = {}
    /\ last = [op |-> "new", res |-> Ok]
    /\ nodes = NetIdle
    /\ inbox = NetIdle
    /\ tasks = NetIdle
    /\ spawned = 0
    /\ timers = NetIdle
    /\ elapsed = 0
    /\ starts = NetIdle
    /\ nlast = NetIdle

\* Chain::new(), now or INTERVAL seconds from now.
DoChainNew ==
    /\ \E timestamp \in {now, now + INTERVAL} :
          /\ chain' = ChainNew(timestamp)
          /\ last' = [op |-> "chain_new", res |-> ChainNewAdd(timestamp).res]
    /\ UNCHANGED <<miner, mined, now, netVars>>

\* The chain comes with one more block.
AuditExtend ==
    /\ Len(chain.blocks) < MaxAudit
    /\ \E b \in AuditBlocks(chain.blocks) :
          chain' = AuditChain(Append(chain.blocks, b))
    /\ last' = [op |-> "extend", res |-> Ok]
    /\ UNCHANGED <<miner, mined, now, netVars>>

\* wallet.verify_chain(&chain)
DoVerifyChain ==
    /\ last' = [op |-> "verify_chain", res |-> VerifyChain(chain)]
    /\ UNCHANGED <<chain, miner, mined, now, netVars>>

\* chain.search(key)
DoSearch ==
    /\ \E key \in AuditKeys :
          last' = [op |-> "search", key |-> key, res |-> Search(chain, key)]
    /\ UNCHANGED <<chain, miner, mined, now, netVars>>

NextAudit ==
    \/ DoChainNew
    \/ AuditExtend
    \/ DoVerifyChain
    \/ DoSearch

SpecAudit == InitAudit /\ [][NextAudit]_vars

----------------------------------------------------------------------------
(* Properties of the audit of a chain, checked under SpecAudit. *)

\* Every block's recorded hash is the hash recomputed of its data.
HashesMatch(blocks) ==
    \A i \in 1..Len(blocks) : blocks[i].hash = DataHash(blocks[i].data)

\* Every block's hash is the previous_hash recorded by its successor.
Linked(blocks) ==
    \A i \in 1..Len(blocks) - 1 : blocks[i + 1].previous_hash = blocks[i].hash

\* Every signature of a transaction or record verifies under the key of
\* its sender.
AllSigned(blocks) ==
    \A i \in 1..Len(blocks) :
        /\ \A j \in 1..Len(GetTransactions(blocks[i])) :
              LET t == GetTransactions(blocks[i])[j]
              IN  WalletVerify(t, t.sender_pk) = "Ok"
        /\ \A j \in 1..Len(GetRecords(blocks[i])) :
              LET r == GetRecords(blocks[i])[j]
              IN  WalletVerify(r, r.sender_pk) = "Ok"

\* Every transaction passes check_transaction_tokens.
AllTokensOwned(blocks) ==
    \A i \in 1..Len(blocks) :
        \A j \in 1..Len(GetTransactions(blocks[i])) :
            CheckTransactionTokens(GetTransactions(blocks[i])[j], blocks).tag = "Ok"

\* C14: verify_chain returns Ok exactly when every recorded hash matches
\* the recomputed one, every block's hash is the previous_hash of its
\* successor, every signature verifies and every transaction passes the
\* token check; an error it returns is that of a check that fails.
C14_VerifyChainAudits ==
    last.op = "verify_chain" =>
        /\ last.res.tag = "Ok" <=>
              /\ HashesMatch(chain.blocks)
              /\ Linked(chain.blocks)
              /\ AllSigned(chain.blocks)
              /\ AllTokensOwned(chain.blocks)
        /\ last.res.tag = "BlockCheckError" =>
              ~HashesMatch(chain.blocks) \/ ~Linked(chain.blocks)
        /\ last.res.tag = "SignatureError" => ~AllSigned(chain.blocks)
        /\ last.res.tag = "TransactionErr" => ~AllTokensOwned(chain.blocks)

\* The most recent record for a key in the first i blocks: that of the
\* latest block that holds one, and in that block the latest.
RECURSIVE MostRecentRecord(_, _, _)
MostRecentRecord(blocks, i, key) ==
    IF i = 0 THEN None
    ELSE LET here == SelectSeq(GetRecords(blocks[i]), LAMBDA r : r.key = key)
         IN  IF here # <<>> THEN Some(Last(here))
             ELSE MostRecentRecord(blocks, i - 1, key)

\* C16: search(key) returns the value of the most recent record for the
\* key, latest block first and latest record of a block first, when that
\* record is not a tombstone, and none when it is a tombstone or when the
\* chain holds no record for the key.
C16_SearchReturnsLatest ==
    last.op = "search" =>
        LET recent == MostRecentRecord(chain.blocks, Len(chain.blocks), last.key)
        IN  last.res = IF recent # None /\ ~recent[1].tombstone
                       THEN Some(recent[1].value)
                       ELSE None

\* C18: Chain::new() does not fail, and the chain it returns holds exactly
\* one block, the genesis block with index 0, the all-zero hash as hash and
\* as previous_hash and empty data; its len is 1 and its difficulty 1.
C18_NewChainIsGenesis ==
    last.op = "chain_new" =>
        /\ last.res.tag = "Ok"
        /\ Len(chain.blocks) = 1
        /\ chain.blocks[1].index = 0
        /\ chain.blocks[1].previous_hash = HashDefault
        /\ chain.blocks[1].hash = HashDefault
        /\ chain.blocks[1].data = <<>>
        /\ chain.len = 1
        /\ chain.difficulty = 1

\* A chain was constructed INTERVAL seconds after the start.
C18_Witness ==
    /\ last.op = "chain_new"
    /\ last.res.tag = "Ok"
    /\ chain.blocks[1].timestamp = INTERVAL
    /\ chain.len = 1

----------------------------------------------------------------------------
(* The scenario SpecWallet: transactions and records are made, signed by   *)
(* a wallet and verified by a wallet, under its own key or under a key     *)
(* passed to it.  `last` holds the entry in hand and the wallet that       *)
(* signed it last.                                                         *)

WalletEntries ==
    {TransactionNew(s, r, <<AuditToken>>) : s \in Wallets, r \in Wallets}
    \cup {RecordNew(p, "k", v, <<AuditToken>>) : p \in Wallets, v \in {"v1", "v2"}}

\* Transaction::new, Record::new
DoNewEntry ==
    /\ \E e \in WalletEntries :
          last' = [op |-> "entry", entry |-> e, signer |-> None, res |-> Ok]
    /\ UNCHANGED <<chain, miner, mined, now, netVars>>

\* wallet.sign(entry)
DoSign ==
    /\ last.op \in {"entry", "sign", "verify"}
    /\ \E w \in Wallets :
          last' = [op |-> "sign", entry |-> WalletSign(w, last.entry),
                   signer |-> Some(w), res |-> Ok]
    /\ UNCHANGED <<chain, miner, mined, now, netVars>>

\* wallet.verify(&entry, pub_key)
DoVerify ==
    /\ last.op \in {"entry", "sign", "verify"}
    /\ \E w \in Wallets, pub_key \in {None} \cup {Some(k) : k \in Wallets} :
          last' = [op |-> "verify", entry |-> last.entry,
                   signer |-> last.signer, wallet |-> w, pub_key |-> pub_key,
                   res |-> Verify(w, last.entry, pub_key)]
    /\ UNCHANGED <<chain, miner, mined, now, netVars>>

NextWallet ==
    \/ DoNewEntry
    \/ DoSign
    \/ DoVerify

SpecWallet == Init /\ [][NextWallet]_vars

\* C15: an entry signed by a wallet verifies under the public key of that
\* wallet, be it the key of the verifying wallet or a key passed to
\* another wallet, and under no other key; an unsigned entry verifies
\* under no key.
C15_SignVerifyRoundTrip ==
    last.op = "verify" =>
        LET key == IF last.pub_key # None THEN last.pub_key[1] ELSE last.wallet
        IN  /\ last.signer = None => last.res # "Ok"
            /\ last.signer # None => (last.res = "Ok" <=> key = last.signer[1])

C15_Witness ==
    /\ last.op = "verify"
    /\ last.signer = Some("A")
    /\ last.entry.sender_pk = MinerPk
    /\ last.wallet = MinerPk
    /\ last.pub_key = Some("A")
    /\ last.res = "Ok"

----------------------------------------------------------------------------
(* The scenario SpecPurse: the wallet of the miner, its coins, and the     *)
(* transactions it submits.  Callers add coins to the wallet and submit    *)
(* transactions of any amount to any receiver.  The tokens are those the   *)
(* program makes, from hashes and from ASCII strings of 64 characters;     *)
(* their bytes are read back as UTF-8 without error.                       *)

PurseTokens ==
    {TokenOfHash(HashDefault), TokenOfHash(BogusHash),
     TokenOfHash(Sha256(<<>>))}

\* The `amount` coins popped one by one from the end of `coins`.
RECURSIVE PopCoins(_, _)
PopCoins(coins, amount) ==
    IF amount = 0 THEN <<>>
    ELSE <<coins[Len(coins)]>>
         \o PopCoins(SubSeq(coins, 1, Len(coins) - 1), amount - 1)

\* check_balance with >= for >.
CheckBalanceStrict(coins, amount) ==
    IF amount >= Len(coins) THEN Err("InsuficientBalance", <<>>, <<>>) ELSE Ok

CheckBalance(coins, amount) ==
    IF amount > Len(coins) THEN Err("InsuficientBalance", <<>>, <<>>) ELSE Ok

\* submit_block_entry(receiver, amount) of the wallet with key `pk` holding
\* `coins`: the coins it is left with, the result and the entry returned.
SubmitBlockEntry(pk, coins, receiver, amount) ==
    IF amount = 0
    THEN [coins |-> coins, res |-> Err("ZeroAmount", <<>>, <<>>), entry |-> None]
    ELSE IF CheckBalance(coins, amount).tag # "Ok"
    THEN [coins |-> coins, res |-> CheckBalance(coins, amount), entry |-> None]
    ELSE [coins |-> SubSeq(coins, 1, Len(coins) - amount),
          res |-> Ok,
          entry |-> Some(WalletSign(pk, TransactionNew(pk, receiver,
                                                       PopCoins(coins, amount))))]

\* wallet.add_coin(coin)
DoAddCoin ==
    /\ Len(miner.coins) < MaxCoins
    /\ \E coin \in PurseTokens :
          /\ miner' = [miner EXCEPT !.coins = Append(miner.coins, coin)]
          /\ last' = [op |-> "add_coin", res |-> Ok]
    /\ UNCHANGED <<chain, mined, now, netVars>>

\* wallet.submit_block_entry(receiver, amount)
DoSubmit ==
    /\ \E receiver \in Wallets, amount \in 0..(MaxCoins + 1) :
          LET r == SubmitBlockEntry(MinerPk, miner.coins, receiver, amount)
          IN  /\ miner' = [miner EXCEPT !.coins = r.coins]
              /\ last' = [op |-> "submit", receiver |-> receiver,
                          amount |-> amount, pre |-> miner.coins,
                          entry |-> r.entry, res |-> r.res]
    /\ UNCHANGED <<chain, mined, now, netVars>>

NextPurse ==
    \/ DoAddCoin
    \/ DoSubmit

SpecPurse == Init /\ [][NextPurse]_vars

\* How many times `x` occurs in `seq`.
Count(seq, x) == Cardinality({i \in 1..Len(seq) : seq[i] = x})

----------------------------------------------------------------------------
(* The scenario SpecCodec: entries written into the data of a block by     *)
(* create_new_block and read back from the block.  Block::get_transactions *)
(* of block.rs reads the data character by character with                  *)
(* get_next_string_entry; get_records is the method of the trait.          *)
(* The text of an entry begins with its type id printed in decimal; every  *)
(* field of a transaction is closed by the separator ';', and every field  *)
(* of a record but its last, the signature.  No character of a text is the *)
(* byte 0 or the byte 1: the texts are made of decimal numbers, hyphenated *)
(* uuids, base64, hexadecimal tokens, "true", "false", separators and the  *)
(* keys of records.                                                        *)

N_TRANSACTION_FIELDS == 7
N_RECORD_FIELDS == 7

\* The code of the character '0'.
CharZero == 48

\* The first character of the text of an entry, as u8.
LeadingChar(text) == CharZero + text.id

\* The number of separators get_next_string_entry reads up to, by the first
\* character of the text: None where it returns None at once.
ItemFieldCount(current_char) ==
    IF current_char = TRANSACTION_BLOCK_MEMBER_IDENTIFIER
    THEN Some(N_TRANSACTION_FIELDS)
    ELSE IF current_char = RECORD_BLOCK_MEMBER_IDENTIFIER
    THEN Some(N_RECORD_FIELDS)
    ELSE None

\* The number of separators in the text of a record.
RecordSeparators == 7

\* The text of an entry cut after `count` separators: the signature of a
\* record, written after its last separator, is left out; the text of a
\* transaction ends with its last separator.
UpToSeparators(text, count) ==
    IF text.id = RECORD_BLOCK_MEMBER_IDENTIFIER /\ count <= RecordSeparators
    THEN [text EXCEPT !.fields[6] = None]
    ELSE text

\* get_next_string_entry with the iterator at the start of a text: the
\* string entry it returns, or None; after None the following calls read
\* the other characters of the text one by one and return None as well.
GetNextStringEntry(text) ==
    LET item_field_count == ItemFieldCount(LeadingChar(text))
    IN  IF item_field_count = None THEN None
        ELSE Some(UpToSeparators(text, item_field_count[1]))

\* Block::get_transactions of block.rs over the texts of the data.
RECURSIVE BlockGetTransactionsFrom(_)
BlockGetTransactionsFrom(data) ==
    IF data = <<>> THEN <<>>
    ELSE LET next_string_entry == GetNextStringEntry(Head(data))
         IN  (IF next_string_entry = None THEN <<>>
              ELSE DecodeTransaction(next_string_entry[1]))
             \o BlockGetTransactionsFrom(Tail(data))

BlockGetTransactions(block) == BlockGetTransactionsFrom(block.data)

\* The entries a caller pushes: transactions and records, unsigned or signed
\* by a wallet.
CodecEntries ==
    WalletEntries \cup {WalletSign(w, e) : w \in Wallets, e \in WalletEntries}

\* miner.push_entry(entry)
CodecPush ==
    /\ Len(miner.entries) < MaxPool
    /\ \E e \in CodecEntries :
          /\ miner' = PushEntry(miner, e)
          /\ last' = [op |-> "push_entry", res |-> Ok]
    /\ UNCHANGED <<chain, mined, now, netVars>>

\* miner.create_new_block(hash, previous_hash)
CodecCreate ==
    /\ Len(miner.coins) < MaxCoins
    /\ LET r == CreateNewBlock(miner, BogusHash, HashDefault, now)
       IN  /\ miner' = r.miner
           /\ last' = [op |-> "create", block |-> r.block,
                       entries |-> SubSeq(miner.entries, 1,
                                          Min(Len(miner.entries), MAX_TRANSACTIONS)),
                       res |-> Ok]
    /\ UNCHANGED <<chain, mined, now, netVars>>

\* block.get_transactions(), block.get_records()
CodecRead ==
    /\ last.op = "create"
    /\ last' = [op |-> "read", block |-> last.block, entries |-> last.entries,
                transactions |-> BlockGetTransactions(last.block),
                records |-> GetRecords(last.block), res |-> Ok]
    /\ UNCHANGED <<chain, miner, mined, now, netVars>>

NextCodec ==
    \/ CodecPush
    \/ CodecCreate
    \/ CodecRead

SpecCodec == Init /\ [][NextCodec]_vars

IsTransaction(e) == e.block_entry_type_id = TRANSACTION_BLOCK_MEMBER_IDENTIFIER
IsRecord(e) == e.block_entry_type_id = RECORD_BLOCK_MEMBER_IDENTIFIER

\* C26: the entries written into the data of a block are the entries read
\* back from it, in their order and equal to the originals: the transactions
\* by get_transactions, the records by get_records, signed or not.
C26_EncodeDecodeRoundTrip ==
    last.op = "read" =>
        /\ last.transactions = SelectSeq(last.entries, IsTransaction)
        /\ last.records = SelectSeq(last.entries, IsRecord)

----------------------------------------------------------------------------
(* The scenario SpecStore: a Store over the FileEngine                      *)
(* (store/src/file_engine.rs), which keeps one open File.  `tasks` holds    *)
(* the engine: the bytes of the file chain.dat and the cursor of the File.  *)
(* The file is opened without truncation, so it is empty or holds what an   *)
(* earlier run stored.  Callers store payloads, which are serialized chains *)
(* and never empty, and load.  set_len leaves the cursor where it is, and a *)
(* write past the end of a file fills the gap with bytes 0.                 *)

MaxFile == 12       \* bytes in the file

\* The byte 0.
Nul == "nul"

StorePayloads ==
    {<<"a">>, <<"b">>, <<"c", "d">>, <<"e", "f">>, <<"g", "h", "i">>}

\* FileEngine::new over a file holding `bytes`.
FileEngineNew(bytes) == [file |-> bytes, cursor |-> 0]

\* File::write of one byte or more at a cursor at or past the end of the
\* file.
FileWrite(self, bytes) ==
    [file |-> [i \in 1..(self.cursor + Len(bytes)) |->
                  IF i > self.cursor THEN bytes[i - self.cursor]
                  ELSE IF i <= Len(self.file) THEN self.file[i]
                  ELSE Nul],
     cursor |-> self.cursor + Len(bytes)]

\* FileEngine::store: set_len(0), write, flush.
EngineStore(self, payload) ==
    [engine |-> FileWrite([self EXCEPT !.file = <<>>], payload),
     res |-> Ok]

\* FileEngine::load: seek to the start, read_to_end.
EngineLoad(self) ==
    [engine |-> [self EXCEPT !.cursor = Len(self.file)],
     res |-> IF Len(self.file) = 0 THEN Err("EmptyFile", <<>>, <<>>) ELSE Ok,
     payload |-> IF Len(self.file) = 0 THEN None ELSE Some(self.file)]

InitStore ==
    /\ now = 0
    /\ chain = ChainNew(0)
    /\ miner = MinerNew(ChainNew(0))
    /\ mined = {}
    /\ last = [op |-> "new", stored |-> None, res |-> Ok]
    /\ nodes = NetIdle
    /\ inbox = NetIdle
    /\ tasks \in {FileEngineNew(bytes) : bytes \in {<<>>} \cup StorePayloads}
    /\ spawned = 0
    /\ timers = NetIdle
    /\ elapsed = 0
    /\ starts = NetIdle
    /\ nlast = NetIdle

\* store.store(payload)
DoStore ==
    /\ \E payload \in StorePayloads :
          /\ tasks.cursor + Len(payload) <= MaxFile
          /\ LET r == EngineStore(tasks, payload)
             IN  /\ tasks' = r.engine
                 /\ last' = [op |-> "store", stored |-> Some(payload),
                             res |-> r.res]
    /\ UNCHANGED <<chain, miner, mined, now, nodes, inbox, spawned, timers,
                   elapsed, starts, nlast>>

\* store.load()
DoLoad ==
    /\ LET r == EngineLoad(tasks)
       IN  /\ tasks' = r.engine
           /\ last' = [op |-> "load", stored |-> last.stored,
                       held |-> tasks.file, payload |-> r.payload,
                       res |-> r.res]
    /\ UNCHANGED <<chain, miner, mined, now, nodes, inbox, spawned, timers,
                   elapsed, starts, nlast>>

NextStore ==
    \/ DoStore
    \/ DoLoad

SpecStore == InitStore /\ [][NextStore]_vars

\* C27: after any sequence of store and load, load returns the payload of
\* the most recent store, and load on a file that holds nothing returns an
\* error.
C27_LoadReturnsLastStored ==
    last.op = "load" =>
        /\ last.stored # None =>
              /\ last.res.tag = "Ok"
              /\ last.payload = last.stored
        /\ last.held = <<>> => last.res.tag # "Ok"

----------------------------------------------------------------------------
(* The scenario SpecHash: the Hash values of a program.  A string is taken  *)
(* by its length in bytes and by whether all its characters are ASCII; a    *)
(* Hash wraps a string.  Hashes are made from strings with try_from, by     *)
(* default(), by calculate_hash, and by deserializing the JSON of a chain   *)
(* that was received or loaded, where the derived Deserialize of the        *)
(* newtype Hash(String) takes the JSON string as it is.  `mined` holds the  *)
(* Hash values that exist.                                                  *)

MaxHashes == 3      \* Hash values kept

\* The strings offered to try_from and found in the JSON of a chain.
HashStrings ==
    [len : {2, HASH_SIZE - 1, HASH_SIZE, HASH_SIZE + 1}, ascii : BOOLEAN]

\* "0".repeat(HASH_SIZE)
ZeroString == [len |-> HASH_SIZE, ascii |-> TRUE]

\* format!("{:x}", digest) of a SHA-256 digest: two hexadecimal characters
\* for each of its 32 bytes.
HexDigest == [len |-> 2 * 32, ascii |-> TRUE]

\* impl TryFrom<String> for Hash
HashTryFrom(value) ==
    IF value.len # HASH_SIZE
    THEN [res |-> Err("WrongSizeHashError", <<>>, <<>>), hash |-> None]
    ELSE IF ~value.ascii
    THEN [res |-> Err("InvalidHashStringhError", <<>>, <<>>), hash |-> None]
    ELSE [res |-> Ok, hash |-> Some(value)]

\* The derived Deserialize of Hash(String), for the JSON string `value`.
HashDeserialize(value) == [res |-> Ok, hash |-> Some(value)]

\* The Hash values that exist once `r` was made.
WithHash(r) == mined \cup {r.hash[i] : i \in 1..Len(r.hash)}

\* Hash::try_from(value)
DoHashTryFrom ==
    /\ \E value \in HashStrings :
          LET r == HashTryFrom(value)
          IN  /\ Cardinality(WithHash(r)) <= MaxHashes
              /\ mined' = WithHash(r)
              /\ last' = [op |-> "try_from", value |-> value, hash |-> r.hash,
                          res |-> r.res]
    /\ UNCHANGED <<chain, miner, now, netVars>>

\* Hash::default()
DoHashDefault ==
    /\ LET r == [res |-> Ok, hash |-> Some(ZeroString)]
       IN  /\ Cardinality(WithHash(r)) <= MaxHashes
           /\ mined' = WithHash(r)
           /\ last' = [op |-> "default", value |-> ZeroString, hash |-> r.hash,
                       res |-> r.res]
    /\ UNCHANGED <<chain, miner, now, netVars>>

\* block.calculate_hash()
DoCalculateHash ==
    /\ LET r == HashTryFrom(HexDigest)
       IN  /\ Cardinality(WithHash(r)) <= MaxHashes
           /\ mined' = WithHash(r)
           /\ last' = [op |-> "calculate_hash", value |-> HexDigest,
                       hash |-> r.hash, res |-> r.res]
    /\ UNCHANGED <<chain, miner, now, netVars>>

\* serde_json::from_str of a chain whose JSON holds the string `value` as a
\* hash.
DoHashDeserialize ==
    /\ \E value \in HashStrings :
          LET r == HashDeserialize(value)
          IN  /\ Cardinality(WithHash(r)) <= MaxHashes
              /\ mined' = WithHash(r)
              /\ last' = [op |-> "deserialize", value |-> value,
                          hash |-> r.hash, res |-> r.res]
    /\ UNCHANGED <<chain, miner, now, netVars>>

\* A Hash value is dropped.
DoHashDrop ==
    /\ \E h \in mined : mined' = mined \ {h}
    /\ last' = [op |-> "drop", res |-> Ok]
    /\ UNCHANGED <<chain, miner, now, netVars>>

NextHash ==
    \/ DoHashTryFrom
    \/ DoHashDefault
    \/ DoCalculateHash
    \/ DoHashDeserialize
    \/ DoHashDrop

SpecHash == Init /\ [][NextHash]_vars

\* C28: every Hash value that exists, made from a string, by calculate_hash,
\* by default or by deserializing a chain, has HASH_SIZE bytes, all ASCII,
\* and try_from fails for a string of another length or with a character
\* that is not ASCII.
C28_HashesAreWellFormed ==
    /\ \A h \in mined : h.len = HASH_SIZE /\ h.ascii
    /\ last.op = "try_from" =>
          (last.res.tag = "Ok" <=> (last.value.len = HASH_SIZE /\ last.value.ascii))

----------------------------------------------------------------------------
(* The Node (network/src/node/node.rs) and its gossip                      *)
(* (network/src/node/gossip.rs).  The scenario SpecNet is that of the      *)
(* gossip test: a tracker started in its node loop, and a node and a miner *)
(* that greet the tracker and then run their node loops.  SpecStar has one *)
(* more node.                                                              *)
(* Datagrams are not lost and reach the inbox of their destination in the  *)
(* order of sending.  new_neighbours keeps an id once, however often it is *)
(* pushed.  Chain::new stamps the genesis block with the time of the       *)
(* construction of the node, so nodes built at different times hold        *)
(* different chains of length 1.                                           *)
(*                                                                         *)
(* Time passes in whole seconds.  The sleep of a gossip task and the wait  *)
(* of listen_to_gossip are timers; of the timers that have run out, the    *)
(* one that started first ends first.  Whatever can be done without        *)
(* waiting, the receipt of a datagram that has come and the end of a timer *)
(* that has run out, is done before the next second passes.  The nodes     *)
(* are started, and greet, at one of the seconds in `starts`; a mining     *)
(* task ends at any time.  The blocks mined in this scenario are stamped   *)
(* with the time `now`, which stays NetTime.                               *)

TrackerId == "n1"

Nodes == {"n1", "n2", "n3", "n4"}

\* The nodes of the gossip test.
TestNodes == {"n1", "n2", "n3"}

Role(n) == IF n = "n1" THEN "Tracker" ELSE IF n = "n3" THEN "Miner" ELSE "Node"

Trackers(n) == IF n = TrackerId THEN {} ELSE {TrackerId}

\* The time at which Node::new built the node: the miner first.
Created(n) == IF Role(n) = "Miner" THEN 0 ELSE 1

\* The time the blocks mined in the scenario are stamped with.
NetTime == 1

\* GOSSIP_INTERVAL, and the wait of listen_to_gossip, in seconds.
GOSSIP_INTERVAL == 3
LISTEN_TIMEOUT == 3

NEIGHBOUR == "NEIGHBOUR"
CHAIN == "CHAIN"

\* A datagram: its protocol byte and what its buffer decodes to, the id of
\* a neighbour or a chain.
Datagram(kind, id, c) == [kind |-> kind, id |-> id, chain |-> c]

NoId == ""

\* Node::new, and the locals of node_loop before its first cycle.  A node
\* without trackers is started in its node loop (pc "spread"), the others
\* greet first (pc "enter"); in listen_to_peers the pc is "listen".
NodeNew(role, trackers, timestamp) ==
    [role |-> role,
     chain |-> ChainNew(timestamp),
     neighbours |-> {},
     new_neighbours |-> <<>>,
     initialized |-> FALSE,
     trackers |-> trackers,
     miner |-> None,
     theme |-> "NewNeighbours",
     mining_receiver |-> <<>>,
     receiver |-> <<>>,
     pc |-> IF trackers = {} THEN "spread" ELSE "enter"]

\* Theme::next that leaves the theme as it is.
ThemeStays(theme) == theme

\* Theme::next
ThemeNext(theme) == IF theme = "Chain" THEN "NewNeighbours" ELSE "Chain"

\* floor(sqrt(n))
FloorSqrt(n) == CHOOSE k \in 0..n : k * k <= n /\ n < (k + 1) * (k + 1)

\* ceil(sqrt(n))
CeilSqrt(n) == CHOOSE k \in 0..n : (k = 0 \/ (k - 1) * (k - 1) < n) /\ n <= k * k

\* get_random_neighbours with ceil(sqrt(n)) draws.
RandomNeighboursCeil(neighbours) ==
    [1..CeilSqrt(Cardinality(neighbours)) -> neighbours]

\* get_random_neighbours: the vectors it may return, floor(sqrt(n)) draws
\* of gen_range(0..n) among the n neighbours, each pushed.
RandomNeighbours(neighbours) ==
    [1..FloorSqrt(Cardinality(neighbours)) -> neighbours]

\* get_random_neighbours: floor(sqrt(n)) draws, with repetition, among the
\* n neighbours; the neighbours drawn.
GetRandomNeighbours(self) ==
    LET n == FloorSqrt(Cardinality(self.neighbours))
    IN  {S \in SUBSET self.neighbours :
            IF n = 0 THEN S = {} ELSE Cardinality(S) \in 1..n}

\* send_new_neighbours: the datagrams sent to one neighbour.
SendNewNeighbours(neighbour_id, new_neighbours) ==
    LET others == SelectSeq(new_neighbours, LAMBDA id : id # neighbour_id)
    IN  [i \in 1..Len(others) |-> Datagram(NEIGHBOUR, others[i], None)]

\* gossip: the datagrams the task sends to one of the neighbours drawn.
Gossip(c, neighbour, new_neighbours, theme) ==
    IF theme = "Chain"
    THEN IF c.len > 0 THEN <<Datagram(CHAIN, NoId, Some(c))>> ELSE <<>>
    ELSE SendNewNeighbours(neighbour, new_neighbours)

\* One comparison of a chain with the chain of the node, for nlast: the
\* lengths, whether the node afterwards holds the chain it was given and
\* whether it holds the chain it held, and whether the two chains differ.
Compared(src, pre, got, post) ==
    [src |-> src, pre_len |-> pre.len, got_len |-> got.len,
     post_len |-> post.len, replaced |-> post = got, kept |-> post = pre,
     differ |-> got # pre]

NoEvents == <<>>

\* check_mined_chain_and_broadcast: the node afterwards and the comparison
\* made, if the channel of the mining tasks held a chain.
CheckMinedChainAndBroadcast(self) ==
    IF self.mining_receiver = <<>> THEN [node |-> self, events |-> <<>>]
    ELSE LET mined_chain == Head(self.mining_receiver)
             polled == [self EXCEPT !.mining_receiver = Tail(@)]
             after == IF ChainGreater(mined_chain, self.chain)
                      THEN [polled EXCEPT !.chain = mined_chain,
                                          !.receiver = Append(@, mined_chain)]
                      ELSE polled
         IN  [node |-> after,
              events |-> <<Compared("mined", self.chain, mined_chain, after.chain)>>]

\* check_remote_chain_and_broadcast
CheckRemoteChainAndBroadcast(self, c) ==
    LET after == IF ChainGreater(c, self.chain)
                 THEN [self EXCEPT !.chain = c, !.receiver = Append(@, c)]
                 ELSE self
    IN  [node |-> after,
         events |-> <<Compared("remote", self.chain, c, after.chain)>>]

\* check_peer_mined_chains that takes whatever chain the channel holds.
CheckPeerMinedChainsAny(self) ==
    IF self.receiver = <<>> THEN [node |-> self, events |-> <<>>]
    ELSE LET recv_chain == Head(self.receiver)
             after == [self EXCEPT !.receiver = Tail(@), !.chain = recv_chain]
         IN  [node |-> after,
              events |-> <<Compared("broadcast", self.chain, recv_chain, after.chain)>>]

\* check_peer_mined_chains
CheckPeerMinedChains(self) ==
    IF self.receiver = <<>> THEN [node |-> self, events |-> <<>>]
    ELSE LET recv_chain == Head(self.receiver)
             polled == [self EXCEPT !.receiver = Tail(@)]
             after == IF ChainGreater(recv_chain, self.chain)
                      THEN [polled EXCEPT !.chain = recv_chain]
                      ELSE polled
         IN  [node |-> after,
              events |-> <<Compared("broadcast", self.chain, recv_chain, after.chain)>>]

\* The head of an iteration of listen_to_peers.
ListenHead(self) ==
    LET a == CheckMinedChainAndBroadcast(self)
        b == CheckPeerMinedChains(a.node)
    IN  [node |-> b.node, events |-> a.events \o b.events]

\* present_id and add_neighbour: the neighbour is kept if it is new, and
\* queued for the next gossip of neighbours.
AddNeighbour(self, id) ==
    [self EXCEPT
        !.neighbours = @ \cup {id},
        !.new_neighbours = IF \E i \in 1..Len(@) : @[i] = id
                           THEN @ ELSE Append(@, id)]

\* The wait of listen_to_gossip of node n.
ListenTimer(n) == [kind |-> "listen", node |-> n, left |-> LISTEN_TIMEOUT]

\* The sleep of a gossip task, with the arguments the task was spawned with.
GossipTimer(n, c, random_neighbours, new_neighbours, theme) ==
    [kind |-> "gossip", node |-> n, left |-> GOSSIP_INTERVAL, chain |-> c,
     random_neighbours |-> random_neighbours,
     new_neighbours |-> new_neighbours, theme |-> theme]

\* The timers running once node n has spawned the gossip tasks `spawn` and
\* called listen_to_gossip afresh.
Armed(ts, n, spawn) ==
    SelectSeq(ts, LAMBDA t : ~(t.kind = "listen" /\ t.node = n))
        \o spawn \o <<ListenTimer(n)>>

\* The nodes `ns` are built; node n is started at a second of window[n].
Built(ns, window) ==
    /\ now = NetTime
    /\ chain = ChainNew(0)
    /\ miner = MinerNew(ChainNew(0))
    /\ mined = {}
    /\ last = [op |-> "new", res |-> Ok]
    /\ nodes = [n \in ns |-> NodeNew(Role(n), Trackers(n), Created(n))]
    /\ inbox = [n \in ns |-> <<>>]
    /\ tasks = [n \in ns |-> <<>>]
    /\ spawned = 0
    /\ timers = <<>>
    /\ elapsed = 0
    /\ starts = window
    /\ nlast = NoEvents

\* The gossip test, its nodes started at any second up to MaxStart.
InitNet == Built(TestNodes, [n \in TestNodes |-> 0..MaxStart])

\* The second at which a node of SpecStar is started: the nodes that greet
\* are started two seconds apart.
StarStart(n) == IF n = "n3" THEN 2 ELSE IF n = "n4" THEN 4 ELSE 0

InitStar == Built(Nodes, [n \in Nodes |-> {StarStart(n)}])

\* The body of the loop of node_loop up to listen_to_peers, for node n in
\* state self: the theme advances, the gossip task is spawned with the
\* chain, the new neighbours and the neighbours drawn, and a miner spawns
\* try_mine with a copy of the chain.  A gossip task that has no datagram
\* to send is not kept.
Spread(n, self, random_neighbours) ==
    LET theme == ThemeNext(self.theme)
        sends == \E d \in random_neighbours :
                     Gossip(self.chain, d, self.new_neighbours, theme) # <<>>
        mines == self.role = "Miner" /\ spawned < MaxTasks
    IN  [node |-> [self EXCEPT
                      !.theme = theme,
                      !.miner = IF self.role = "Miner" /\ @ = None
                                THEN Some(MinerNew(self.chain))
                                ELSE @,
                      !.pc = "listen"],
         gossip |-> IF sends
                    THEN <<GossipTimer(n, self.chain, random_neighbours,
                                       self.new_neighbours, theme)>>
                    ELSE <<>>,
         try_mine |-> IF mines THEN <<self.chain>> ELSE <<>>]

\* node_loop starts, for the node that does not greet: the first cycle.
NodeLoop(n, random_neighbours) ==
    LET c == Spread(n, nodes[n], random_neighbours)
    IN  /\ nodes[n].pc = "spread"
        /\ random_neighbours \in GetRandomNeighbours(nodes[n])
        /\ nodes' = [nodes EXCEPT ![n] = c.node]
        /\ timers' = Armed(timers, n, c.gossip)
        /\ tasks' = [tasks EXCEPT ![n] = @ \o c.try_mine]
        /\ spawned' = spawned + Len(c.try_mine)
        /\ nlast' = NoEvents
        /\ UNCHANGED <<chainVars, inbox, elapsed, starts>>

\* enter_and_node_loop up to listen_to_peers.  enter_network: greet sends
\* GREET to the tracker until the tracker, in an iteration of its
\* listen_to_peers, answers with its id (present_id); the tracker and the
\* node become neighbours.  Then node_loop starts: the first cycle.
EnterNetwork(n, random_neighbours) ==
    /\ nodes[n].pc = "enter"
    /\ elapsed \in starts[n]
    /\ \E tracker \in nodes[n].trackers :
          LET head == ListenHead(nodes[tracker])
              joined == [AddNeighbour(nodes[n], tracker) EXCEPT
                            !.initialized = TRUE]
              c == Spread(n, joined, random_neighbours)
          IN  /\ nodes[tracker].pc = "listen"
              /\ random_neighbours \in GetRandomNeighbours(joined)
              /\ nodes' = [nodes EXCEPT
                              ![tracker] = AddNeighbour(head.node, n),
                              ![n] = c.node]
              /\ timers' = Armed(Armed(timers, tracker, <<>>), n, c.gossip)
              /\ tasks' = [tasks EXCEPT ![n] = @ \o c.try_mine]
              /\ spawned' = spawned + Len(c.try_mine)
              /\ nlast' = head.events
    /\ UNCHANGED <<chainVars, inbox, elapsed, starts>>

\* try_mine: one of the tasks of the node finishes mine(miner, chain) and
\* sends the chain it returns to the node loop.
TryMine(n) ==
    /\ \E i \in 1..Len(tasks[n]), nonce \in 0..MaxNonce :
          LET current_chain == tasks[n][i]
              loop_miner == nodes[n].miner[1]
          IN  /\ MineFinds(SetChainMeta(loop_miner, current_chain),
                           GetLastBlock(current_chain), nonce)
              /\ LET r == NodeMine(loop_miner, current_chain, nonce, now)
                 IN  nodes' = [nodes EXCEPT
                                  ![n].miner = Some(r.miner),
                                  ![n].mining_receiver = Append(@, r.chain)]
              /\ tasks' = [tasks EXCEPT
                              ![n] = SubSeq(@, 1, i - 1) \o SubSeq(@, i + 1, Len(@))]
    /\ nlast' = NoEvents
    /\ UNCHANGED <<chainVars, inbox, spawned, timers, elapsed, starts>>

\* No datagram waits to be received.
Quiet == \A d \in DOMAIN inbox : inbox[d] = <<>>

\* The timers that have run out, in the order in which they started.
RunOut == SelectSeq(timers, LAMBDA t : t.left = 0)

\* Whether no node has to be started before the next second: no node is
\* about to start its node loop, and a node that has not greeted may be
\* started later.
NoneDue ==
    \A n \in DOMAIN nodes :
        /\ nodes[n].pc # "spread"
        /\ nodes[n].pc = "enter" => \E t \in starts[n] : t > elapsed

\* A second passes: no timer has run out, no datagram waits and no node
\* has to be started.
SecondPasses ==
    /\ timers # <<>>
    /\ RunOut = <<>>
    /\ Quiet
    /\ NoneDue
    /\ timers' = [i \in 1..Len(timers) |->
                     [timers[i] EXCEPT !.left = @ - 1]]
    /\ nlast' = NoEvents
    /\ UNCHANGED <<chainVars, nodes, inbox, tasks, spawned, starts>>

\* One of the first MaxSeconds seconds passes.
NetTick ==
    /\ elapsed < MaxSeconds
    /\ SecondPasses
    /\ elapsed' = elapsed + 1

\* A second passes, counted as long as a node is still to be started.
StarTick ==
    /\ SecondPasses
    /\ elapsed' = IF \A n \in DOMAIN nodes : nodes[n].pc # "enter"
                  THEN elapsed ELSE elapsed + 1

\* The timers but the first of those that have run out.
Ended == SelectSeq(timers, LAMBDA t : t # Head(RunOut))

\* The sleep of a gossip task ends: the task sends its datagrams to the
\* neighbours it was given.
GossipFires ==
    /\ RunOut # <<>>
    /\ Head(RunOut).kind = "gossip"
    /\ Quiet
    /\ LET t == Head(RunOut)
       IN  inbox' = [d \in DOMAIN inbox |->
                        IF d \in t.random_neighbours
                        THEN inbox[d] \o
                             Gossip(t.chain, d, t.new_neighbours, t.theme)
                        ELSE inbox[d]]
    /\ timers' = Ended
    /\ nlast' = NoEvents
    /\ UNCHANGED <<chainVars, nodes, tasks, spawned, elapsed, starts>>

\* An iteration of listen_to_peers in which listen_to_gossip returns a
\* datagram: the reply is dispatched and the loop goes on, with a new wait.
ListenReceive(n) ==
    LET head == ListenHead(nodes[n])
        m == Head(inbox[n])
        self == head.node
        r == IF m.kind = CHAIN
             THEN CheckRemoteChainAndBroadcast(self, m.chain[1])
             ELSE IF m.kind = NEIGHBOUR
             THEN [node |-> AddNeighbour(self, m.id), events |-> <<>>]
             ELSE [node |-> self, events |-> <<>>]
    IN  /\ nodes[n].pc = "listen"
        /\ inbox[n] # <<>>
        /\ nodes' = [nodes EXCEPT ![n] = r.node]
        /\ inbox' = [inbox EXCEPT ![n] = Tail(@)]
        /\ timers' = Armed(timers, n, <<>>)
        /\ nlast' = head.events \o r.events
        /\ UNCHANGED <<chainVars, tasks, spawned, elapsed, starts>>

\* An iteration of listen_to_peers in which listen_to_gossip times out, no
\* datagram having come during its wait: listen_to_peers returns and the
\* next cycle of node_loop starts.
ListenTimeout(n, random_neighbours) ==
    LET head == ListenHead(nodes[n])
        c == Spread(n, head.node, random_neighbours)
    IN  /\ RunOut # <<>>
        /\ Head(RunOut).kind = "listen"
        /\ Head(RunOut).node = n
        /\ Quiet
        /\ random_neighbours \in GetRandomNeighbours(head.node)
        /\ nodes' = [nodes EXCEPT ![n] = c.node]
        /\ timers' = Armed(timers, n, c.gossip)
        /\ tasks' = [tasks EXCEPT ![n] = @ \o c.try_mine]
        /\ spawned' = spawned + Len(c.try_mine)
        /\ nlast' = head.events
        /\ UNCHANGED <<chainVars, inbox, elapsed, starts>>

\* What the nodes and their tasks do.
Gossiping ==
    \/ \E n \in DOMAIN nodes : \E S \in SUBSET Nodes : NodeLoop(n, S)
    \/ \E n \in DOMAIN nodes : \E S \in SUBSET Nodes : EnterNetwork(n, S)
    \/ \E n \in DOMAIN nodes : TryMine(n)
    \/ GossipFires
    \/ \E n \in DOMAIN nodes : ListenReceive(n)
    \/ \E n \in DOMAIN nodes : \E S \in SUBSET Nodes : ListenTimeout(n, S)

NextNet == Gossiping \/ NetTick

SpecNet == InitNet /\ [][NextNet]_vars

NextStar == Gossiping \/ StarTick

SpecStar == InitStar /\ [][NextStar]_vars

----------------------------------------------------------------------------
(* Properties of the replacement of the chain of a node, checked under     *)
(* SpecNet.                                                                *)

\* C9: when a node processes a chain, received in a CHAIN datagram, taken
\* from the channel of its mining tasks or from its broadcast channel, that
\* is strictly longer than the chain it holds, it afterwards holds that
\* chain, so its chain is at least as long as the chain processed; a chain
\* of equal or smaller length leaves the node with the chain it held.
C9_LongerChainReplaces ==
    \A i \in 1..Len(nlast) :
        LET e == nlast[i]
        IN  /\ e.got_len > e.pre_len => e.replaced /\ e.post_len >= e.got_len
            /\ e.got_len <= e.pre_len => e.kept

\* A node took a longer chain from a CHAIN datagram.
C9_Witness ==
    \E i \in 1..Len(nlast) :
        /\ nlast[i].src = "remote"
        /\ nlast[i].got_len > nlast[i].pre_len
        /\ nlast[i].replaced
        /\ nlast[i].differ

----------------------------------------------------------------------------
(* The scheduling of the network and the convergence of the chains,        *)
(* checked under FairStar.                                                 *)

\* A cycle of node n starts on a timeout of its listen_to_peers.
TimesOut(n) == \E S \in SUBSET Nodes : ListenTimeout(n, S)

\* A cycle of node n starts on a timeout and, if d is a neighbour of n, the
\* cycle gossips the chain of n and d is among the neighbours drawn.
DrawsForChain(n, d) ==
    \E S \in SUBSET Nodes :
        /\ ListenTimeout(n, S)
        /\ d \in nodes[n].neighbours => d \in S /\ nodes'[n].theme = "Chain"

\* A second passes or a timer ends.
TimePasses == StarTick \/ GossipFires \/ \E n \in Nodes : TimesOut(n)

\* Whether a second can pass or a timer can end.
CanPass ==
    /\ timers # <<>>
    /\ Quiet
    /\ RunOut # <<>> \/ NoneDue

\* Whether a mining task of node n can finish.
CanMine(n) ==
    \E i \in 1..Len(tasks[n]), nonce \in 0..MaxNonce :
        MineFinds(SetChainMeta(nodes[n].miner[1], tasks[n][i]),
                  GetLastBlock(tasks[n][i]), nonce)

Miners == {n \in Nodes : Role(n) = "Miner"}

\* The scheduling of the network.  Every task that can run does run: the
\* start of a node loop, a greet, the receipt of a datagram that has come,
\* and a mining task, which finishes if it stays able to.  Time passes and
\* the timers that have run out end.  The draws of get_random_neighbours are uniform, so a node
\* that starts cycles for ever draws each of its neighbours in a cycle that
\* gossips the chain again and again.
FairStar ==
    /\ SpecStar
    /\ \A n \in Nodes : WF_vars(\E S \in SUBSET Nodes : NodeLoop(n, S))
    /\ \A n \in Nodes : WF_vars(\E S \in SUBSET Nodes : EnterNetwork(n, S))
    /\ \A n \in Nodes : WF_vars(ListenReceive(n))
    /\ \A n \in Miners : []<>(~CanMine(n)) \/ []<><<TryMine(n)>>_vars
    /\ []<>(~CanPass) \/ []<><<TimePasses>>_vars
    /\ \A n \in Nodes :
          \/ <>[][~TimesOut(n)]_vars
          \/ \A d \in Nodes \ {n} : []<><<DrawsForChain(n, d)>>_vars

RECURSIVE MaxOf(_)
MaxOf(S) ==
    IF S = {} THEN 0
    ELSE LET x == CHOOSE y \in S : TRUE
             m == MaxOf(S \ {x})
         IN  IF x > m THEN x ELSE m

\* The greatest chain length held by any node.
GreatestLen == MaxOf({nodes[n].chain.len : n \in Nodes})

Converged == \A n \in Nodes : nodes[n].chain.len = GreatestLen

\* C10: chain replication is eventually consistent.  The mining tasks are
\* finitely many, so mining stops in every behaviour; when the node loops,
\* their tasks and the draws of neighbours are fair and no datagram is
\* lost, every node eventually holds, and goes on holding, a chain as long
\* as the longest chain any node holds.
C10_EventuallyConsistent == <>[]Converged

----------------------------------------------------------------------------
(* The scenario SpecEnter: a node enters the network (node.rs:             *)
(* enter_network, gossip.rs: greet).  Its trackers are none, or a list of  *)
(* addresses: that of a tracker that runs its node loop, an address where  *)
(* nothing listens, whose datagrams are lost, or an address that send_to   *)
(* refuses.  greet sends GREET and waits a second for a datagram; a        *)
(* tracker answers a GREET with its id in an iteration of listen_to_peers. *)
(* A tracker answers before the node has sent it MaxGreets more GREETs.    *)

MaxTrackers == 2    \* addresses in the list of trackers of a node
MaxGreets == 2      \* GREETs a tracker has not yet answered

GREET == "GREET"
ID == "ID"

EnterNode == "n2"
EnterTrackers == {TrackerId, "n5"}
SilentAddress == "silent"
InvalidAddress == "invalid"

TrackerAddresses == EnterTrackers \cup {SilentAddress, InvalidAddress}

\* Option<Vec<String>>
TrackerLists ==
    {None} \cup {Some(l) : l \in UNION {[1..k -> TrackerAddresses] :
                                          k \in 0..MaxTrackers}}

\* The fields of Node::new that enter_network reads and writes, the
\* position of its loop over the trackers (`at`), the Result it returned,
\* if it has (`entered`), and the ids that greet has been answered with.
Entering(trackers) ==
    [role |-> "Node",
     neighbours |-> {},
     new_neighbours |-> <<>>,
     initialized |-> FALSE,
     trackers |-> trackers,
     at |-> 0,
     entered |-> None,
     acked |-> {},
     pc |-> "enter"]

InitEnter ==
    /\ now = NetTime
    /\ chain = ChainNew(0)
    /\ miner = MinerNew(ChainNew(0))
    /\ mined = {}
    /\ last = [op |-> "new", res |-> Ok]
    /\ \E trackers \in TrackerLists :
          nodes = [n \in EnterTrackers \cup {EnterNode} |->
                      IF n = EnterNode THEN Entering(trackers)
                      ELSE [NodeNew("Tracker", {}, 0) EXCEPT !.pc = "listen"]]
    /\ inbox = [n \in EnterTrackers \cup {EnterNode} |-> <<>>]
    /\ tasks = NetIdle
    /\ spawned = 0
    /\ timers = NetIdle
    /\ elapsed = 0
    /\ starts = NetIdle
    /\ nlast = NetIdle

enterVars == <<chain, miner, mined, now, tasks, spawned, timers, elapsed,
               starts, nlast>>

\* enter_network is called: without trackers it returns NoTrackers, with
\* trackers it starts its loop over them.
EnterBegins ==
    LET self == nodes[EnterNode]
    IN  /\ self.pc = "enter"
        /\ nodes' = [nodes EXCEPT ![EnterNode] =
                        IF self.trackers = None
                        THEN [self EXCEPT !.pc = "done",
                                          !.entered = Some("NoTrackers")]
                        ELSE [self EXCEPT !.pc = "greet", !.at = 1]]
        /\ last' = [op |-> "enter_network", res |-> Ok]
        /\ UNCHANGED <<inbox, enterVars>>

\* greet: socket.send_to(&buffer, tracker).  An error of send_to is
\* returned by greet, and enter_network goes on with the next tracker.
GreetSend ==
    LET self == nodes[EnterNode]
        tracker == self.trackers[1][self.at]
    IN  /\ self.pc = "greet"
        /\ self.at <= Len(self.trackers[1])
        /\ tracker \in EnterTrackers => Len(inbox[tracker]) < MaxGreets
        /\ nodes' = [nodes EXCEPT ![EnterNode] =
                        IF tracker = InvalidAddress
                        THEN [self EXCEPT !.at = @ + 1]
                        ELSE [self EXCEPT !.pc = "await"]]
        /\ inbox' = IF tracker \in EnterTrackers
                    THEN [inbox EXCEPT ![tracker] =
                             Append(@, Datagram(GREET, EnterNode, None))]
                    ELSE inbox
        /\ last' = [op |-> "send_to", res |-> Ok]
        /\ UNCHANGED enterVars

\* greet: the wait of one second ends without a datagram; greet retries.
GreetTimeout ==
    LET self == nodes[EnterNode]
    IN  /\ self.pc = "await"
        /\ inbox[EnterNode] = <<>>
        /\ nodes' = [nodes EXCEPT ![EnterNode] = [self EXCEPT !.pc = "greet"]]
        /\ last' = [op |-> "timeout", res |-> Ok]
        /\ UNCHANGED <<inbox, enterVars>>

\* greet: a datagram comes within the second.  An id makes greet return
\* the tracker as a Neighbour, which enter_network inserts; greet returns
\* InvalidReplyError for any other datagram.
GreetReply ==
    LET self == nodes[EnterNode]
        tracker == self.trackers[1][self.at]
        m == Head(inbox[EnterNode])
        neighbour == [id |-> m.id, address |-> tracker, role |-> "Tracker"]
    IN  /\ self.pc = "await"
        /\ inbox[EnterNode] # <<>>
        /\ nodes' = [nodes EXCEPT ![EnterNode] =
                        IF m.kind = ID
                        THEN [self EXCEPT
                                 !.neighbours =
                                     {x \in @ : x.id # m.id} \cup {neighbour},
                                 !.new_neighbours = Append(@, neighbour),
                                 !.initialized = TRUE,
                                 !.acked = @ \cup {m.id},
                                 !.at = @ + 1,
                                 !.pc = "greet"]
                        ELSE [self EXCEPT !.at = @ + 1, !.pc = "greet"]]
        /\ inbox' = [inbox EXCEPT ![EnterNode] = Tail(@)]
        /\ last' = [op |-> "recv_from", res |-> Ok]
        /\ UNCHANGED enterVars

\* enter_network: the loop over the trackers is over.
EnterEnds ==
    LET self == nodes[EnterNode]
    IN  /\ self.pc = "greet"
        /\ self.at > Len(self.trackers[1])
        /\ nodes' = [nodes EXCEPT ![EnterNode] =
                        [self EXCEPT
                            !.pc = "done",
                            !.entered = IF ~self.initialized
                                        THEN Some("NoListeners")
                                        ELSE Some("Ok")]]
        /\ last' = [op |-> "entered", res |-> Ok]
        /\ UNCHANGED <<inbox, enterVars>>

\* listen_to_peers of a tracker receives a GREET: present_id keeps the
\* sender as a neighbour and sends the id of the tracker back.
PresentId(t) ==
    LET m == Head(inbox[t])
    IN  /\ inbox[t] # <<>>
        /\ m.kind = GREET
        /\ nodes' = [nodes EXCEPT ![t] = AddNeighbour(@, m.id)]
        /\ inbox' = [inbox EXCEPT ![t] = Tail(@),
                                  ![m.id] = Append(@, Datagram(ID, t, None))]
        /\ last' = [op |-> "present_id", res |-> Ok]
        /\ UNCHANGED enterVars

NextEnter ==
    \/ EnterBegins
    \/ GreetSend
    \/ GreetTimeout
    \/ GreetReply
    \/ EnterEnds
    \/ \E t \in EnterTrackers : PresentId(t)

SpecEnter == InitEnter /\ [][NextEnter]_vars

\* The scheduling: enter_network runs on, the second of a wait passes, and
\* a tracker goes on with its listen_to_peers.
FairEnter ==
    /\ SpecEnter
    /\ WF_vars(EnterBegins)
    /\ WF_vars(GreetSend)
    /\ WF_vars(GreetTimeout)
    /\ WF_vars(GreetReply)
    /\ WF_vars(EnterEnds)
    /\ \A t \in EnterTrackers : WF_vars(PresentId(t))

\* enter_network has returned.
Entered == nodes[EnterNode].pc = "done"

\* The Result is the one of the three that fits: Ok when a tracker
\* answered the greet with its id, every tracker that answered being a
\* neighbour of role Tracker; NoListeners when trackers are configured and
\* none of them is reachable; NoTrackers when none is configured.
OutcomeFits ==
    LET self == nodes[EnterNode]
        reachable == IF self.trackers = None THEN {}
                     ELSE {self.trackers[1][i] : i \in 1..Len(self.trackers[1])}
                              \cap EnterTrackers
    IN  /\ self.entered = Some("Ok") <=> self.acked # {}
        /\ self.entered = Some("Ok") =>
              \A t \in self.acked :
                  \E x \in self.neighbours : x.id = t /\ x.role = "Tracker"
        /\ self.entered = Some("NoListeners") <=>
              self.trackers # None /\ reachable = {}
        /\ self.entered = Some("NoTrackers") <=> self.trackers = None

\* C19: enter_network terminates, with the Result that fits.
C19_EnterNetworkReturns == <>(Entered /\ OutcomeFits)

----------------------------------------------------------------------------
(* The scenario SpecRelay: entries queued on a node (node.rs: node_loop,   *)
(* listen_to_transactions, submit_transaction).  A node and a miner have   *)
(* entered the network and know each other and the tracker.  Callers send  *)
(* signed entries, as text, into the transaction channel of a node.  Each  *)
(* cycle of node_loop spawns one listen_to_transactions task with the      *)
(* neighbours and the miner handle of the node at that moment; the tasks   *)
(* take the lock of the channel in the order of their spawning and each    *)
(* receives one text.  Datagrams sent stay in the inbox of their           *)
(* destination.                                                            *)

MaxListeners == 2   \* listen_to_transactions tasks of a node that wait

TRANSACTION == "TRANSACTION"

RelayNodes == {"n2", "n3"}

\* The signed entries callers queue: a transaction and a record.
RelayEntries ==
    {WalletSign("A", TransactionNew("A", MinerPk, <<AuditToken>>)),
     WalletSign("A", RecordNew("A", "k", "v1", <<AuditToken>>))}

\* The fields of a node that has entered the network, its transaction
\* channel, its waiting listen_to_transactions tasks, and the entries that
\* were queued on it.
Relaying(n) ==
    [role |-> Role(n),
     neighbours |-> (RelayNodes \cup {TrackerId}) \ {n},
     miner |-> None,
     theme |-> "NewNeighbours",
     transaction_receiver |-> <<>>,
     listeners |-> <<>>,
     queued |-> {}]

InitRelay ==
    /\ now = NetTime
    /\ chain = ChainNew(0)
    /\ miner = MinerNew(ChainNew(0))
    /\ mined = {}
    /\ last = [op |-> "new", res |-> Ok]
    /\ nodes = [n \in RelayNodes |-> Relaying(n)]
    /\ inbox = [n \in RelayNodes \cup {TrackerId} |-> <<>>]
    /\ tasks = NetIdle
    /\ spawned = 0
    /\ timers = NetIdle
    /\ elapsed = 0
    /\ starts = NetIdle
    /\ nlast = NetIdle

\* A caller sends the text of a signed entry into the channel of node n.
QueueEntry(n) ==
    /\ \E e \in RelayEntries \ nodes[n].queued :
          nodes' = [nodes EXCEPT
                       ![n].transaction_receiver = Append(@, EncodeEntry(e)),
                       ![n].queued = @ \cup {e}]
    /\ last' = [op |-> "queue", res |-> Ok]
    /\ UNCHANGED <<inbox, enterVars>>

\* A cycle of node_loop: the theme advances, listen_to_transactions is
\* spawned with the neighbours and the miner handle of the node; then a
\* node of role Miner that has no Miner yet makes one.  Of the tasks that
\* wait for the lock of the channel, the first MaxListeners are kept.
RelayCycle(n) ==
    LET self == nodes[n]
        task == [neighbours |-> self.neighbours, miner |-> self.miner # None]
    IN  /\ nodes' = [nodes EXCEPT ![n] =
                        [self EXCEPT
                            !.theme = ThemeNext(@),
                            !.listeners = IF Len(@) < MaxListeners
                                          THEN Append(@, task) ELSE @,
                            !.miner = IF self.role = "Miner" /\ @ = None
                                      THEN Some(MinerNew(ChainNew(NetTime)))
                                      ELSE @]]
        /\ last' = [op |-> "node_loop", res |-> Ok]
        /\ UNCHANGED <<inbox, enterVars>>

\* submit_transaction: for every neighbour of role Miner a future that
\* would send the transaction is made; the futures are collected into a
\* vector that is dropped, and none of them is awaited.  The value is the
\* set of the sends that are done.
SubmitTransaction(transaction, neighbours, address) ==
    LET futures == {[to |-> m,
                     datagram |-> [kind |-> TRANSACTION,
                                   entry |-> EncodeEntry(transaction)]] :
                       m \in {x \in neighbours : Role(x) = "Miner"}}
        awaited == {}
    IN  futures \cap awaited

\* listen_to_transactions: the task that holds the lock receives a text.
\* receive_transaction parses it as a Transaction; a text that is none is
\* dropped.  The transaction is pushed to the Miner whose handle the task
\* was spawned with, or submitted to the neighbours.
ListenToTransactions(n) ==
    LET self == nodes[n]
        task == Head(self.listeners)
        transaction == DecodeTransaction(Head(self.transaction_receiver))
        sends == IF transaction # None /\ ~task.miner
                 THEN SubmitTransaction(transaction[1], task.neighbours, n)
                 ELSE {}
    IN  /\ self.listeners # <<>>
        /\ self.transaction_receiver # <<>>
        /\ nodes' = [nodes EXCEPT ![n] =
                        [self EXCEPT
                            !.listeners = Tail(@),
                            !.transaction_receiver = Tail(@),
                            !.miner = IF transaction # None /\ task.miner
                                      THEN Some(PushEntry(@[1], transaction[1]))
                                      ELSE @]]
        /\ inbox' = [m \in DOMAIN inbox |->
                        inbox[m] \o
                        IF \E f \in sends : f.to = m
                        THEN <<(CHOOSE f \in sends : f.to = m).datagram>>
                        ELSE <<>>]
        /\ last' = [op |-> "listen_to_transactions", res |-> Ok]
        /\ UNCHANGED enterVars

NextRelay ==
    \/ \E n \in RelayNodes : QueueEntry(n)
    \/ \E n \in RelayNodes : RelayCycle(n)
    \/ \E n \in RelayNodes : ListenToTransactions(n)

SpecRelay == InitRelay /\ [][NextRelay]_vars

\* The scheduling: the node loops cycle on, and a task that holds the lock
\* of a channel with a text in it receives the text.
FairRelay ==
    /\ SpecRelay
    /\ \A n \in RelayNodes : WF_vars(RelayCycle(n))
    /\ \A n \in RelayNodes : WF_vars(ListenToTransactions(n))

\* The text of entry e waits in the channel of node n.
Queued(n, e) ==
    \E i \in 1..Len(nodes[n].transaction_receiver) :
        nodes[n].transaction_receiver[i] = EncodeEntry(e)

\* Entry e has left the channel of node n and is where it belongs: in the
\* pool of the Miner of n if n has one, and otherwise in a TRANSACTION
\* datagram sent to every neighbour of n whose role is Miner.
Delivered(n, e) ==
    /\ ~Queued(n, e)
    /\ IF nodes[n].miner # None
       THEN \E i \in 1..Len(nodes[n].miner[1].entries) :
               EncodeEntry(nodes[n].miner[1].entries[i]) = EncodeEntry(e)
       ELSE \A m \in {x \in nodes[n].neighbours : Role(x) = "Miner"} :
               \E i \in 1..Len(inbox[m]) :
                   inbox[m][i] = [kind |-> TRANSACTION, entry |-> EncodeEntry(e)]

\* C20: every signed entry queued on a node is drained and delivered, to
\* the pool of the Miner of the node if it has one and otherwise as a
\* TRANSACTION datagram to every neighbour whose role is Miner.
C20_QueuedEntriesDelivered ==
    \A n \in RelayNodes, e \in RelayEntries : Queued(n, e) ~> Delivered(n, e)

----------------------------------------------------------------------------
(* The scenario SpecSearch: the search of Miner::mine, one draw of a nonce *)
(* at a time.  mine(miner, chain) of the node points the miner at the      *)
(* chain and calls mine on its last block; every iteration of the loop     *)
(* draws a nonce, and the search returns at a nonce whose hash has the     *)
(* prefix; the digest is added to the chain.  `tasks` holds the candidate  *)
(* block of the running search, with the nonce drawn last.                 *)

Searching == tasks # <<>>

\* mine is called: filter_entries, and the loop starts.
SearchBegins ==
    /\ ~Searching
    /\ nodes = NetIdle
    /\ chain.len < MaxLen
    /\ miner' = FilterEntries(SetChainMeta(miner, chain))
    /\ tasks' = <<GetLastBlock(chain)>>
    /\ last' = [op |-> "search", res |-> Ok]
    /\ UNCHANGED <<chain, mined, now, nodes, inbox, spawned, timers, elapsed,
                   starts, nlast>>

\* An iteration draws `nonce` and the hash has not the prefix.
SearchMisses(nonce) ==
    /\ Searching
    /\ ~MineFinds(miner, tasks[1], nonce)
    /\ tasks' = <<[tasks[1] EXCEPT !.nonce = nonce]>>
    /\ last' = [op |-> "draw", res |-> Ok]
    /\ UNCHANGED <<chain, miner, mined, now, nodes, inbox, spawned, timers,
                   elapsed, starts, nlast>>

\* An iteration draws `nonce` and the hash has the prefix: mine returns the
\* digest, which is added to the chain.
SearchFinds(nonce) ==
    /\ Searching
    /\ MineFinds(miner, tasks[1], nonce)
    /\ LET r == Mine(miner, tasks[1], nonce, now)
           a == AddBlock(chain, r.digest)
       IN  /\ miner' = r.miner
           /\ chain' = a.chain
           /\ last' = [op |-> "found", digest |-> r.digest, pre |-> chain,
                       difficulty |-> miner.chain.difficulty,
                       missed |-> last.op = "draw", res |-> a.res]
    /\ tasks' = <<>>
    /\ UNCHANGED <<mined, now, nodes, inbox, spawned, timers, elapsed, starts,
                   nlast>>

\* Time passes, during a search as well.
SearchTick == Tick

\* A caller pushes an entry to an empty pool; mine borrows the miner for the
\* whole search, so no entry is pushed while a search runs.
SearchPush == ~Searching /\ miner.entries = <<>> /\ DoPushEntry

NextSearch ==
    \/ SearchTick
    \/ SearchPush
    \/ SearchBegins
    \/ \E nonce \in 0..MaxNonce : SearchMisses(nonce)
    \/ \E nonce \in 0..MaxNonce : SearchFinds(nonce)

SpecSearch == Init /\ [][NextSearch]_vars

\* The nonces are drawn fairly: a search that goes on while some nonce gives
\* the prefix draws such a nonce.
FairSearch ==
    /\ SpecSearch
    /\ WF_vars(\E nonce \in 0..MaxNonce : SearchFinds(nonce))

\* Some nonce gives the candidate block a hash with the prefix.
Solvable == \E nonce \in 0..MaxNonce : MineFinds(miner, tasks[1], nonce)

\* With nonces drawn fairly, a call of mine for whose candidate block some
\* nonce gives a hash with the prefix returns, and the hash of the digest a
\* call returns begins with `difficulty` characters '0'.
SolvableSearchReturns ==
    /\ [](last.op = "found" =>
             StartsWithZeros(last.digest.block.hash, last.difficulty))
    /\ (Searching /\ Solvable) ~> ~Searching

----------------------------------------------------------------------------
(* The scenario SpecYield: a Miner node whose search runs in the blocking  *)
(* task of try_mine while listen_to_peers handles TRANSACTION datagrams.   *)
(* mine(miner, chain) of node.rs locks the sync::Mutex of the miner in the *)
(* scrutinee of its `if let`, so the guard lives for the whole call of     *)
(* Miner::mine; push_transaction locks the same mutex to push the entry.   *)
(* `inbox` holds the entry listen_to_peers has decoded and is to push.     *)

YieldEntries ==
    {WalletSign(s, TransactionNew(s, r, <<AuditToken>>)) : s \in Wallets, r \in Wallets}

\* The sync::Mutex of the miner is held: by the search, from the call of
\* Miner::mine to its return.
MinerLocked == Searching

\* listen_to_peers receives a TRANSACTION datagram and add_block_entry decodes
\* its entry.
ListenReceives ==
    /\ inbox = <<>>
    /\ Len(miner.entries) < MaxPool
    /\ \E entry \in YieldEntries : inbox' = <<entry>>
    /\ last' = [op |-> "add_block_entry", res |-> Ok]
    /\ UNCHANGED <<chain, miner, mined, now, nodes, tasks, spawned, timers,
                   elapsed, starts, nlast>>

\* push_transaction: guard.lock().unwrap(), push_entry.
ListenPushes ==
    /\ inbox # <<>>
    /\ ~MinerLocked
    /\ miner' = PushEntry(miner, inbox[1])
    /\ inbox' = <<>>
    /\ last' = [op |-> "push_transaction", res |-> Ok]
    /\ UNCHANGED <<chain, mined, now, nodes, tasks, spawned, timers, elapsed,
                   starts, nlast>>

NextYield ==
    \/ SearchBegins
    \/ \E nonce \in 0..MaxNonce : SearchMisses(nonce)
    \/ \E nonce \in 0..MaxNonce : SearchFinds(nonce)
    \/ ListenReceives
    \/ ListenPushes

SpecYield == Init /\ [][NextYield]_vars

\* C21: while a search runs, no step of the listen task waits for it to
\* finish: a received entry can be handed to the miner at once.
C21_ListenNeverWaitsForSearch == inbox # <<>> => ENABLED ListenPushes

----------------------------------------------------------------------------
(* The scenario SpecPoll: a node polls a live neighbour for its chain.     *)
(* update_chain of the poller calls poll_chain, which sends a POLLCHAIN    *)
(* datagram and waits, without a timeout, for one datagram, whose whole    *)
(* buffer it parses as the JSON of a chain.  The neighbour runs its node   *)
(* loop: every cycle it gossips, its chain when the theme is Chain and the *)
(* poller is among its neighbours, and handles one datagram if one has     *)
(* come.  `chain` is the chain of the neighbour, `nodes` its theme and     *)
(* whether it knows the poller, `inbox` the datagrams on their way to each *)
(* of the two, `tasks` the state of the call of update_chain.              *)

MaxDatagrams == 2   \* datagrams on their way to the poller

POLLCHAIN == "POLLCHAIN"

Poller == "n2"
Polled == "n3"

\* The buffer poll_chain parses: recv_buffer whole, the protocol byte of the
\* datagram first and, after the bytes received, the zeros it was made of.
RecvBuffer(datagram) ==
    [lead |-> <<datagram.kind>>, json |-> datagram.chain, padded |-> TRUE]

\* serde_json::from_str::<Chain>, which accepts the JSON of a chain with
\* nothing before it and nothing but whitespace after it.
ChainFromStr(text) ==
    IF text.lead = <<>> /\ ~text.padded
    THEN [res |-> Ok, chain |-> Some(text.json)]
    ELSE [res |-> Err("InvalidReplyError", <<>>, <<>>), chain |-> None]

\* share_chain()
ShareChain(self) == None

InitPoll ==
    /\ now = 0
    /\ chain \in {ChainNew(0)} \cup {AuditChain(<<b>>) : b \in AuditBlocks(<<>>)}
    /\ miner = MinerNew(ChainNew(0))
    /\ mined = {}
    /\ last = [op |-> "new", res |-> Ok]
    /\ nodes \in [theme : {"NewNeighbours"}, knows : BOOLEAN]
    /\ inbox = [n \in {Poller, Polled} |-> <<>>]
    /\ tasks = [pc |-> "idle", res |-> Ok, chain |-> None]
    /\ spawned = 0
    /\ timers = NetIdle
    /\ elapsed = 0
    /\ starts = NetIdle
    /\ nlast = NetIdle

\* update_chain calls poll_chain for the neighbour: the POLLCHAIN datagram is
\* sent and recv_from awaits.
PollSend ==
    /\ tasks.pc = "idle"
    /\ tasks' = [tasks EXCEPT !.pc = "recv"]
    /\ inbox' = [inbox EXCEPT ![Polled] = Append(@, Datagram(POLLCHAIN, Poller, None))]
    /\ last' = [op |-> "poll_chain", res |-> Ok]
    /\ UNCHANGED <<chain, miner, mined, now, nodes, spawned, timers, elapsed,
                   starts, nlast>>

\* recv_from of poll_chain returns a datagram; poll_chain parses it and
\* update_chain, with no other neighbour to poll, returns.
PollReceives ==
    /\ tasks.pc = "recv"
    /\ inbox[Poller] # <<>>
    /\ LET r == ChainFromStr(RecvBuffer(Head(inbox[Poller])))
       IN  tasks' = [pc |-> "done",
                     res |-> IF r.res.tag = "Ok" THEN Ok
                             ELSE Err("NoListeners", <<>>, <<>>),
                     chain |-> r.chain]
    /\ inbox' = [inbox EXCEPT ![Poller] = Tail(@)]
    /\ last' = [op |-> "update_chain", res |-> Ok]
    /\ UNCHANGED <<chain, miner, mined, now, nodes, spawned, timers, elapsed,
                   starts, nlast>>

\* One cycle of the node loop of the neighbour: the gossip of the cycle, and
\* listen_to_peers handling the datagram that has come, if any; for
\* POLLCHAIN it calls share_chain and has no reply to act on.
PolledCycle ==
    /\ LET theme == ThemeNext(nodes.theme)
           gossips == /\ theme = "Chain"
                      /\ nodes.knows
                      /\ chain.len > 0
                      /\ Len(inbox[Poller]) < MaxDatagrams
           handled == IF inbox[Polled] = <<>> THEN None
                      ELSE IF Head(inbox[Polled]).kind = POLLCHAIN
                      THEN ShareChain(nodes)
                      ELSE None
       IN  /\ nodes' = [nodes EXCEPT !.theme = theme]
           /\ inbox' = [inbox EXCEPT
                           ![Poller] = IF gossips
                                       THEN Append(@, Datagram(CHAIN, Polled, chain))
                                       ELSE @,
                           ![Polled] = IF @ = <<>> THEN @ ELSE Tail(@)]
           /\ last' = [op |-> "cycle", res |-> Ok, reply |-> handled]
    /\ UNCHANGED <<chain, miner, mined, now, tasks, spawned, timers, elapsed,
                   starts, nlast>>

NextPoll ==
    \/ PollSend
    \/ PollReceives
    \/ PolledCycle

SpecPoll == InitPoll /\ [][NextPoll]_vars

\* The neighbour is live and the datagrams that arrive are read.
FairPoll ==
    /\ SpecPoll
    /\ WF_vars(PollSend)
    /\ WF_vars(PollReceives)
    /\ WF_vars(PolledCycle)

\* C22: a poll sent to a live neighbour is answered with a CHAIN message of
\* its chain, and update_chain completes with the chain of the neighbour.
C22_PollCompletesWithChain ==
    (tasks.pc = "recv") ~> (tasks.pc = "done" /\ tasks.chain = Some(chain))

----------------------------------------------------------------------------
(* The scenario SpecDrop: a node in its node loop receives datagrams of    *)
(* every kind, well formed or not.  A payload is taken by whether it is    *)
(* UTF-8, by what its text is (the JSON of a neighbour, the JSON of a      *)
(* chain, the text of an entry, or none of these) and by where it holds a  *)
(* character sanitize stops at: nowhere, after the JSON ("tail") or within *)
(* it ("inside").  `nodes` is the node (role, neighbours, new_neighbours,  *)
(* and whether its node loop runs), `chain` its chain, `miner` the miner   *)
(* of a Miner node, `inbox` the datagram that has come, `spawned` the      *)
(* number of datagrams so far.                                             *)

MaxArrivals == 3    \* datagrams a node receives

FAREWELL == "FAREWELL"

\* A protocol byte that is none of the six.
UNKNOWN == "UNKNOWN"

DropKinds == {GREET, FAREWELL, NEIGHBOUR, TRANSACTION, CHAIN, POLLCHAIN, UNKNOWN}

DropPeers == {"n3", "n5"}

\* A chain longer than that of a new node.
LongerChain ==
    AuditChain(<<ChainNew(0).blocks[1], BlockNew(2, HashDefault, <<>>, BogusHash, 0)>>)

\* The text of a payload holds one of a neighbour, a chain and an entry, or
\* none.
Body(utf8, form, value, where) ==
    [utf8 |-> utf8, form |-> form, where |-> where,
     neighbour |-> IF form = "neighbour" THEN Some(value) ELSE None,
     chain |-> IF form = "chain" THEN Some(value) ELSE None,
     entry |-> IF form = "entry" THEN Some(value) ELSE None]

DropBodies ==
    {Body(utf8, "garbage", <<>>, "clean") : utf8 \in BOOLEAN}
    \cup {Body(TRUE, "neighbour", id, where) :
            id \in DropPeers, where \in {"clean", "tail", "inside"}}
    \cup {Body(TRUE, "chain", c, where) :
            c \in {ChainNew(0), LongerChain}, where \in {"clean", "tail", "inside"}}
    \cup {Body(TRUE, "entry", EncodeEntry(e), "clean") : e \in RelayEntries}

\* Node::sanitize: the text up to the first character that is neither
\* alphanumeric nor accepted.
Sanitize(body) ==
    IF body.where = "inside"
    THEN Body(body.utf8, "garbage", <<>>, "clean")
    ELSE [body EXCEPT !.where = "clean"]

InvalidReply == Err("InvalidReplyError", <<>>, <<>>)

\* What a handler returns: the node afterwards, the result, and the reply
\* for listen_to_peers to act on.
Handled(self, res, reply) == [node |-> self, res |-> res, reply |-> reply]

\* present_id and add_neighbour once the neighbour is decoded.
KeepNeighbour(self, id) ==
    [self EXCEPT !.neighbours = @ \cup {id},
                 !.new_neighbours = Append(@, id)]

\* present_id(sender, buffer)
PresentIdOf(self, body) ==
    IF ~body.utf8 THEN Handled(self, InvalidReply, None)
    ELSE IF Sanitize(body).form # "neighbour" THEN Handled(self, InvalidReply, None)
    ELSE Handled(KeepNeighbour(self, Sanitize(body).neighbour[1]), Ok, None)

\* remove_neighbour(sender)
RemoveNeighbour(self, sender) ==
    Handled([self EXCEPT !.neighbours = @ \ {sender}], Ok, None)

\* add_neighbour(buffer)
AddNeighbourOf(self, body) ==
    IF ~body.utf8 THEN Handled(self, InvalidReply, None)
    ELSE IF Sanitize(body).form # "neighbour" THEN Handled(self, InvalidReply, None)
    ELSE Handled(KeepNeighbour(self, Sanitize(body).neighbour[1]), Ok, None)

\* add_block_entry(buffer)
AddBlockEntry(self, body) ==
    IF self.role # "Miner" THEN Handled(self, Ok, None)
    ELSE IF ~body.utf8 THEN Handled(self, InvalidReply, None)
    ELSE IF body.form # "entry" THEN Handled(self, InvalidReply, None)
    ELSE IF DecodeTransaction(body.entry[1]) = None
    THEN Handled(self, InvalidReply, None)
    ELSE Handled(self, Ok, Some([sign |-> DecodeTransaction(body.entry[1])[1]]))

\* get_chain(buffer)
GetChain(self, body) ==
    IF ~body.utf8 THEN Handled(self, InvalidReply, None)
    ELSE IF Sanitize(body).form # "chain" THEN Handled(self, InvalidReply, None)
    ELSE Handled(self, Ok, Some([chain |-> Sanitize(body).chain[1]]))

\* The match of listen_to_peers on the protocol byte.
Dispatch(self, datagram) ==
    IF datagram.kind = GREET THEN PresentIdOf(self, datagram.body)
    ELSE IF datagram.kind = FAREWELL THEN RemoveNeighbour(self, datagram.sender)
    ELSE IF datagram.kind = NEIGHBOUR THEN AddNeighbourOf(self, datagram.body)
    ELSE IF datagram.kind = TRANSACTION THEN AddBlockEntry(self, datagram.body)
    ELSE IF datagram.kind = CHAIN THEN GetChain(self, datagram.body)
    ELSE IF datagram.kind = POLLCHAIN THEN Handled(self, Ok, ShareChain(self))
    ELSE Handled(self, Ok, None)

\* A node loop that ends when listen_to_peers returns an error.
LoopGoesOnIfOk(res) == res.tag = "Ok"

\* node_loop: `let _ = self.listen_to_peers(..).await`, and the next cycle.
LoopGoesOn(res) == TRUE

InitDrop ==
    /\ now = 0
    /\ chain = ChainNew(0)
    /\ miner = MinerNew(ChainNew(0))
    /\ mined = {}
    /\ last = [op |-> "new", res |-> Ok]
    /\ nodes \in [role : {"Node", "Miner"}, neighbours : {{}},
                  new_neighbours : {<<>>}, running : {TRUE}]
    /\ inbox = <<>>
    /\ tasks = NetIdle
    /\ spawned = 0
    /\ timers = NetIdle
    /\ elapsed = 0
    /\ starts = NetIdle
    /\ nlast = NetIdle

\* A datagram reaches the socket of the node.
DropArrives ==
    /\ inbox = <<>>
    /\ spawned < MaxArrivals
    /\ \E kind \in DropKinds, body \in DropBodies, sender \in DropPeers :
          inbox' = <<[kind |-> kind, sender |-> sender, body |-> body]>>
    /\ spawned' = spawned + 1
    /\ last' = [op |-> "arrives", res |-> Ok]
    /\ UNCHANGED <<chain, miner, mined, now, nodes, tasks, timers, elapsed,
                   starts, nlast>>

\* A cycle of the node loop in which listen_to_peers receives the datagram:
\* the dispatch, the use of the reply, and the node loop going on or not.
DropListen ==
    /\ nodes.running
    /\ inbox # <<>>
    /\ LET datagram == inbox[1]
           r == Dispatch(nodes, datagram)
           is_chain == r.res.tag = "Ok" /\ r.reply # None
                       /\ "chain" \in DOMAIN r.reply[1]
           is_sign == r.res.tag = "Ok" /\ r.reply # None
                      /\ "sign" \in DOMAIN r.reply[1]
       IN  /\ nodes' = [r.node EXCEPT !.running = LoopGoesOn(r.res)]
           /\ chain' = IF is_chain /\ ChainGreater(r.reply[1].chain, chain)
                       THEN r.reply[1].chain ELSE chain
           /\ miner' = IF is_sign /\ nodes.role = "Miner"
                       THEN PushEntry(miner, r.reply[1].sign) ELSE miner
           /\ last' = [op |-> "listen", datagram |-> datagram, res |-> r.res,
                       pre |-> [chain |-> chain, miner |-> miner,
                                neighbours |-> nodes.neighbours,
                                new_neighbours |-> nodes.new_neighbours]]
    /\ inbox' = <<>>
    /\ UNCHANGED <<mined, now, tasks, spawned, timers, elapsed, starts, nlast>>

NextDrop ==
    \/ DropArrives
    \/ DropListen

SpecDrop == InitDrop /\ [][NextDrop]_vars

\* The payload of a datagram does not hold what its kind announces.
Undecodable(datagram) ==
    LET body == datagram.body
        text == IF body.where = "inside" THEN "garbage" ELSE body.form
    IN  \/ ~body.utf8
        \/ datagram.kind \in {GREET, NEIGHBOUR} /\ text # "neighbour"
        \/ datagram.kind = CHAIN /\ text # "chain"
        \/ datagram.kind = TRANSACTION
           /\ (text # "entry"
               \/ body.entry[1].id # TRANSACTION_BLOCK_MEMBER_IDENTIFIER)

Malformed(datagram) ==
    \/ datagram.kind = UNKNOWN
    \/ datagram.kind \in {GREET, NEIGHBOUR, TRANSACTION, CHAIN}
       /\ Undecodable(datagram)

\* C23: a malformed datagram, of an unknown kind or with a payload that
\* cannot be decoded, never ends the node: it is dropped, the chain, the
\* neighbours, the queue of new neighbours and the pool of the miner are as
\* before, and the node loop goes on.
C23_MalformedDatagramDropped ==
    (last.op = "listen" /\ Malformed(last.datagram)) =>
        /\ nodes.running
        /\ inbox = <<>>
        /\ chain = last.pre.chain
        /\ miner = last.pre.miner
        /\ nodes.neighbours = last.pre.neighbours
        /\ nodes.new_neighbours = last.pre.new_neighbours

\* A Miner node that has a neighbour and a longer chain from earlier
\* datagrams got a CHAIN datagram whose JSON is cut by sanitize;
\* listen_to_peers returned the error and the node loop runs.
C23_Witness ==
    /\ last.op = "listen"
    /\ last.datagram.kind = CHAIN
    /\ last.datagram.body.form = "chain"
    /\ last.datagram.body.where = "inside"
    /\ last.res.tag = "InvalidReplyError"
    /\ nodes.role = "Miner"
    /\ nodes.neighbours # {}
    /\ chain = LongerChain
    /\ nodes.running


\* The rules of add_block on the blocks of a chain: len is the number of
\* blocks, each block records the hash of its predecessor, and the hash of
\* each block after the genesis block is the digest of its predecessor at
\* some nonce.
ObeysAddBlock(c) ==
    /\ c.len = Len(c.blocks)
    /\ Linked(c.blocks)
    /\ \A i \in 2..Len(c.blocks) :
          \E nonce \in 0..MaxNonce :
              c.blocks[i].hash = Sha256(StrBlock(c.blocks[i - 1], nonce))

\* C31: every chain a node holds obeys the rules add_block enforces; a
\* received chain that breaks them is never adopted.
C31_HeldChainObeysAddBlock == ObeysAddBlock(chain)


----------------------------------------------------------------------------
(* The scenario SpecTamper: the digests the miner returns are submitted to *)
(* the chain as returned, or after their block was altered: its data       *)
(* emptied, the receiver of its entries replaced, or its timestamp moved,  *)
(* the hash and the nonce kept.                                            *)

\* The entry paid to another wallet.
Redirected(text) == [text EXCEPT !.fields[2] = "A"]

\* The blocks a caller may make of the block of a digest, the hash, the
\* previous hash, the index and the nonce kept.
Alterations(block) ==
    {[block EXCEPT !.data = <<>>],
     [block EXCEPT !.data = [i \in 1..Len(block.data) |-> Redirected(block.data[i])]],
     [block EXCEPT !.timestamp = block.timestamp + 1],
     [block EXCEPT !.timestamp = block.timestamp + INTERVAL]}
    \ {block}

\* chain.add_block(digest) with a digest the miner returned whose block was
\* altered.
DoAddAltered ==
    /\ \E m \in mined :
          \E block \in Alterations(m.digest.block) :
              LET d == [m.digest EXCEPT !.block = block]
                  r == AddBlock(chain, d)
              IN  /\ chain' = r.chain
                  /\ mined' = mined \ {m}
                  /\ last' = [op |-> "add_altered", digest |-> d,
                              mined |-> m.digest, pre |-> chain,
                              res |-> r.res, against |-> {m}]
    /\ UNCHANGED <<miner, now, netVars>>

NextTamper ==
    \/ Tick
    \/ DoSetChainMeta
    \/ DoMine
    \/ DoAddMined
    \/ DoAddAltered

SpecTamper == Init /\ [][NextTamper]_vars

\* C32: the hash of a mined block commits to its contents: add_block
\* rejects a digest whose block had its data or its timestamp altered after
\* mining, the hash and the nonce kept.
C32_AlteredDigestRejected ==
    last.op = "add_altered" => last.res.tag # "Ok"


----------------------------------------------------------------------------
(* The scenario SpecShare: the try_mine tasks that successive cycles of    *)
(* the node loop of a Miner node spawn, each with a clone of the chain of  *)
(* the node at its cycle, share the Miner of the node.  A task locks the   *)
(* miner for set_chain_meta, releases it, and locks it again for mine.     *)
(* `tasks` holds the tasks in the order of their spawning: where each is,  *)
(* its snapshot, and what it made; `chain` is the chain of the node, which *)
(* grows by the chains it receives and by those its tasks send.            *)

MaxShare == 2       \* try_mine tasks spawned

\* node_loop spawns try_mine with self.chain.clone().
ShareSpawn ==
    /\ Len(tasks) < MaxShare
    /\ tasks' = Append(tasks, [pc |-> "set", snapshot |-> chain])
    /\ spawned' = spawned + 1
    /\ last' = [op |-> "spawn", res |-> Ok]
    /\ UNCHANGED <<chain, miner, mined, now, nodes, inbox, timers, elapsed,
                   starts, nlast>>

\* listen_to_peers gets the chain of another miner, one block longer, and
\* check_remote_chain_and_broadcast adopts it.
ShareReceive ==
    /\ chain.len < MaxLen
    /\ \E nonce \in 0..MaxNonce :
          LET a == AddBlock(chain, PlainDigest(chain, nonce, now))
          IN  /\ a.res.tag = "Ok"
              /\ ChainGreater(a.chain, chain)
              /\ chain' = a.chain
    /\ last' = [op |-> "receive", res |-> Ok]
    /\ UNCHANGED <<miner, mined, now, nodes, inbox, tasks, spawned, timers,
                   elapsed, starts, nlast>>

\* mine: miner.lock().unwrap().set_chain_meta(chain.clone()); the guard is
\* dropped at the end of the statement.
ShareSetChainMeta(t) ==
    /\ tasks[t].pc = "set"
    /\ miner' = SetChainMeta(miner, tasks[t].snapshot)
    /\ tasks' = [tasks EXCEPT ![t].pc = "mine"]
    /\ last' = [op |-> "set_chain_meta", task |-> t, res |-> Ok]
    /\ UNCHANGED <<chain, mined, now, nodes, inbox, spawned, timers, elapsed,
                   starts, nlast>>

\* mine: miner.lock().unwrap().mine(chain.get_last_block()) under the lock
\* taken anew, and add_block of the digest to the chain of the task.
ShareMine(t) ==
    /\ tasks[t].pc = "mine"
    /\ \E nonce \in 0..MaxNonce :
          /\ MineFinds(miner, GetLastBlock(tasks[t].snapshot), nonce)
          /\ LET r == Mine(miner, GetLastBlock(tasks[t].snapshot), nonce, now)
                 a == AddBlock(tasks[t].snapshot, r.digest)
             IN  /\ miner' = r.miner
                 /\ tasks' = [tasks EXCEPT ![t] =
                                 [pc |-> "mined", snapshot |-> tasks[t].snapshot,
                                  meta |-> miner.chain, digest |-> r.digest,
                                  chain |-> a.chain, res |-> a.res]]
                 /\ last' = [op |-> "mine", task |-> t, res |-> a.res]
    /\ UNCHANGED <<chain, mined, now, nodes, inbox, spawned, timers, elapsed,
                   starts, nlast>>

\* try_mine sends the chain of the task; check_mined_chain_and_broadcast
\* takes it from the channel.
ShareSend(t) ==
    /\ tasks[t].pc = "mined"
    /\ chain' = IF ChainGreater(tasks[t].chain, chain) THEN tasks[t].chain
                ELSE chain
    /\ tasks' = [tasks EXCEPT ![t].pc = "sent"]
    /\ last' = [op |-> "send", task |-> t, res |-> Ok]
    /\ UNCHANGED <<miner, mined, now, nodes, inbox, spawned, timers, elapsed,
                   starts, nlast>>

NextShare ==
    \/ Tick
    \/ ShareSpawn
    \/ ShareReceive
    \/ \E t \in 1..Len(tasks) : ShareSetChainMeta(t)
    \/ \E t \in 1..Len(tasks) : ShareMine(t)
    \/ \E t \in 1..Len(tasks) : ShareSend(t)

SpecShare == Init /\ [][NextShare]_vars

\* C33: each mining task works on one snapshot of the chain: the block it
\* makes has the index snapshot length + 1 and meets the difficulty of the
\* snapshot whose last block it hashed and to which it adds the block; the
\* set_chain_meta of another task does not come between its set_chain_meta
\* and its mine.
C33_TaskMinesOnItsSnapshot ==
    \A t \in 1..Len(tasks) :
        tasks[t].pc \in {"mined", "sent"} =>
            /\ tasks[t].meta = tasks[t].snapshot
            /\ tasks[t].digest.block.index = tasks[t].snapshot.len + 1
            /\ StartsWithZeros(tasks[t].digest.block.hash,
                               tasks[t].snapshot.difficulty)


----------------------------------------------------------------------------
(* The scenario SpecListen: the node loop of a node and the peers that     *)
(* send it datagrams at any time.  A cycle of node_loop ends with          *)
(* listen_to_peers, a loop of calls of listen_to_gossip, each of which     *)
(* waits LISTEN_TIMEOUT seconds for a datagram.  `nodes` is the node, with *)
(* where it is (pc); `inbox` the datagrams at its socket; `timers` the     *)
(* seconds left of the wait of listen_to_gossip.                           *)

MaxWaiting == 2     \* datagrams waiting at the socket of the node

\* The datagrams the peers send: a neighbour, a byte that is no protocol,
\* and a chain that cannot be decoded.
ListenDatagrams ==
    {[kind |-> NEIGHBOUR, sender |-> "n3",
      body |-> Body(TRUE, "neighbour", "n3", "clean")],
     [kind |-> UNKNOWN, sender |-> "n3",
      body |-> Body(TRUE, "garbage", <<>>, "clean")],
     [kind |-> CHAIN, sender |-> "n5",
      body |-> Body(TRUE, "garbage", <<>>, "clean")]}

InitListen ==
    /\ now = 0
    /\ chain = ChainNew(0)
    /\ miner = MinerNew(ChainNew(0))
    /\ mined = {}
    /\ last = [op |-> "new", res |-> Ok]
    /\ nodes = [role |-> "Node", neighbours |-> {}, new_neighbours |-> <<>>,
                running |-> TRUE, pc |-> "cycle", theme |-> "NewNeighbours"]
    /\ inbox = <<>>
    /\ tasks = NetIdle
    /\ spawned = 0
    /\ timers = <<>>
    /\ elapsed = 0
    /\ starts = NetIdle
    /\ nlast = NetIdle

\* A peer sends a datagram to the node (a neighbour, as long as the node
\* holds fewer than MaxWaiting new neighbours).
PeerSends ==
    /\ Len(inbox) < MaxWaiting
    /\ \E datagram \in ListenDatagrams :
          /\ datagram.kind = NEIGHBOUR =>
                Len(nodes.new_neighbours)
                + Len(SelectSeq(inbox, LAMBDA d : d.kind = NEIGHBOUR)) < MaxWaiting
          /\ inbox' = Append(inbox, datagram)
    /\ last' = [op |-> "send", res |-> Ok]
    /\ UNCHANGED <<chain, miner, mined, now, nodes, tasks, spawned, timers,
                   elapsed, starts, nlast>>

\* node_loop: a cycle starts; the theme is advanced, gossip and
\* listen_to_transactions are spawned, and listen_to_peers is called:
\* listen_to_gossip starts its wait.
CycleStarts ==
    /\ nodes.running
    /\ nodes.pc = "cycle"
    /\ nodes' = [nodes EXCEPT !.pc = "listen", !.theme = ThemeNext(@)]
    /\ timers' = <<LISTEN_TIMEOUT>>
    /\ last' = [op |-> "cycle", res |-> Ok]
    /\ UNCHANGED <<chain, miner, mined, now, inbox, tasks, spawned, elapsed,
                   starts, nlast>>

\* A second of the wait of listen_to_gossip passes, no datagram having come.
ListenWaits ==
    /\ nodes.pc = "listen"
    /\ inbox = <<>>
    /\ timers[1] > 0
    /\ timers' = <<timers[1] - 1>>
    /\ last' = [op |-> "wait", res |-> Ok]
    /\ UNCHANGED <<chain, miner, mined, now, nodes, inbox, tasks, spawned,
                   elapsed, starts, nlast>>

\* listen_to_gossip times out: it returns Ok(None) and listen_to_peers
\* returns Ok(()).
ListenTimesOut ==
    /\ nodes.pc = "listen"
    /\ inbox = <<>>
    /\ timers[1] = 0
    /\ nodes' = [nodes EXCEPT !.pc = "cycle"]
    /\ timers' = <<>>
    /\ last' = [op |-> "timeout", res |-> Ok]
    /\ UNCHANGED <<chain, miner, mined, now, inbox, tasks, spawned, elapsed,
                   starts, nlast>>

\* An iteration of the loop of listen_to_peers in which listen_to_gossip
\* returns a datagram: when the handler returns an error, listen_to_peers
\* returns it; otherwise the loop goes to its next iteration and
\* listen_to_gossip waits anew.
ListenGets ==
    /\ nodes.pc = "listen"
    /\ inbox # <<>>
    /\ LET r == Dispatch(nodes, Head(inbox))
       IN  /\ nodes' = IF r.res.tag = "Ok"
                       THEN r.node
                       ELSE [r.node EXCEPT !.pc = "cycle",
                                           !.running = LoopGoesOn(r.res)]
           /\ timers' = IF r.res.tag = "Ok" THEN <<LISTEN_TIMEOUT>> ELSE <<>>
           /\ last' = [op |-> "listen", datagram |-> Head(inbox), res |-> r.res]
    /\ inbox' = Tail(inbox)
    /\ UNCHANGED <<chain, miner, mined, now, tasks, spawned, elapsed, starts,
                   nlast>>

NextListen ==
    \/ PeerSends
    \/ CycleStarts
    \/ ListenWaits
    \/ ListenTimesOut
    \/ ListenGets

SpecListen == InitListen /\ [][NextListen]_vars

\* The node runs: its cycles start, time passes, datagrams at its socket
\* are received.  Nothing is asked of the peers.
FairListen ==
    /\ SpecListen
    /\ WF_vars(CycleStarts)
    /\ WF_vars(ListenWaits)
    /\ WF_vars(ListenTimesOut)
    /\ WF_vars(ListenGets)

\* C34: the listen step of a cycle of the node loop receives one datagram
\* and ends within its bounded wait, so that whatever the peers send, the
\* node always eventually starts its next cycle.
C34_NextCycleAlwaysStarts == []<>(nodes.pc = "cycle")


----------------------------------------------------------------------------
(* Properties of verify_chain on the chains of SpecLedger, which are built *)
(* by Chain::new and by add_block of the digests that mine returned.       *)

\* The transactions in the blocks of the chain that callers pushed, which
\* are all but the rewards, are signed by their senders.
PushedSigned(c) ==
    \A i \in 1..Len(c.blocks) :
        \A j \in 1..Len(GetTransactions(c.blocks[i])) :
            LET t == GetTransactions(c.blocks[i])[j]
            IN  t.sender_pk # ZERO_WALLET_PK => WalletVerify(t, t.sender_pk) = "Ok"

\* C35: every chain built only by Chain::new and by add_block of digests
\* that Miner::mine produced, with signed entries that pass the ownership
\* validation, is accepted by Wallet::verify_chain.
C35_BuiltChainsVerify ==
    PushedSigned(chain) => VerifyChain(chain).tag = "Ok"


----------------------------------------------------------------------------
(* The scenario SpecFull: the pool of the miner is filled, entry by entry, *)
(* up to and beyond the MAX_TRANSACTIONS entries a block carries, with the *)
(* transaction by which the miner spends its first coin; the miner mines   *)
(* at any time, and time passes.                                           *)

MaxFull == MAX_TRANSACTIONS + 1     \* entries pushed to the pool

\* The transaction by which the miner pays its first coin to another wallet.
FirstCoinSpent(self) ==
    WalletSign(MinerPk, TransactionNew(MinerPk, "A", <<self.coins[1]>>))

\* miner.push_entry(entry) with that transaction.
FullPush ==
    /\ miner.coins # <<>>
    /\ Len(miner.entries) < MaxFull
    /\ miner' = PushEntry(miner, FirstCoinSpent(miner))
    /\ last' = [op |-> "push_entry", res |-> Ok]
    /\ UNCHANGED <<chain, mined, now, netVars>>

NextFull ==
    \/ Tick
    \/ FullPush
    \/ DoNodeMine

SpecFull == Init /\ [][NextFull]_vars

\* The reward of a block: from the zero wallet to the miner, the hash of the
\* block as its token.
IsReward(t, block) ==
    /\ t.sender_pk = ZERO_WALLET_PK
    /\ t.receiver_pk = MinerPk
    /\ t.tokens = <<TokenOfHash(block.hash)>>

\* C36: whenever mining credits the wallet of the miner with a reward
\* Token, the data of the mined block holds the reward Transaction, also
\* when the pool held MAX_TRANSACTIONS or more valid entries before the
\* reward was appended.
C36_CreditedRewardIsInBlock ==
    (/\ last.op = "node_mine"
     /\ miner.coins # <<>>
     /\ Last(miner.coins) = TokenOfHash(last.digest.block.hash)) =>
        \E j \in 1..Len(GetTransactions(last.digest.block)) :
            IsReward(GetTransactions(last.digest.block)[j], last.digest.block)


----------------------------------------------------------------------------
(* The scenario SpecGrow: one node in listen_to_peers, to which its mining *)
(* tasks send chains, other nodes send CHAIN datagrams, and its broadcast  *)
(* channel hands the chains it sent.  The chains are those that miners     *)
(* make of the chain of a new node, of equal and of different lengths.     *)

\* The chains a miner with an empty pool makes of chain c at time t.
MinedOn(c, t) ==
    {NodeMine(MinerNew(c), c, nonce, t).chain :
       nonce \in {m \in 0..MaxNonce :
                    MineFinds(SetChainMeta(MinerNew(c), c), GetLastBlock(c), m)}}

GrowChains ==
    LET second == UNION {MinedOn(ChainNew(0), t) : t \in {0, INTERVAL}}
        third == UNION {MinedOn(c, t) : c \in second, t \in {INTERVAL, 2 * INTERVAL}}
    IN  {ChainNew(0)} \cup second \cup third

InitGrow ==
    /\ now = 0
    /\ chain = ChainNew(0)
    /\ miner = MinerNew(ChainNew(0))
    /\ mined = {}
    /\ last = [op |-> "new", res |-> Ok]
    /\ nodes = [NodeNew("Miner", {}, 0) EXCEPT !.pc = "listen"]
    /\ inbox = <<>>
    /\ tasks = NetIdle
    /\ spawned = 0
    /\ timers = NetIdle
    /\ elapsed = 0
    /\ starts = NetIdle
    /\ nlast = NoEvents

\* try_mine: a mining task sends the chain that mine returned.
GrowTaskSends ==
    /\ nodes.mining_receiver = <<>>
    /\ \E c \in GrowChains : nodes' = [nodes EXCEPT !.mining_receiver = <<c>>]
    /\ nlast' = NoEvents
    /\ UNCHANGED <<chainVars, inbox, tasks, spawned, timers, elapsed, starts>>

\* A CHAIN datagram reaches the socket of the node.
GrowChainArrives ==
    /\ inbox = <<>>
    /\ \E c \in GrowChains : inbox' = <<Datagram(CHAIN, NoId, Some(c))>>
    /\ nlast' = NoEvents
    /\ UNCHANGED <<chainVars, nodes, tasks, spawned, timers, elapsed, starts>>

\* An iteration of listen_to_peers that gets the CHAIN datagram.
GrowListenGets ==
    /\ inbox # <<>>
    /\ LET head == ListenHead(nodes)
           r == CheckRemoteChainAndBroadcast(head.node, inbox[1].chain[1])
       IN  /\ nodes' = r.node
           /\ nlast' = head.events \o r.events
    /\ inbox' = <<>>
    /\ UNCHANGED <<chainVars, tasks, spawned, timers, elapsed, starts>>

\* An iteration of listen_to_peers in which listen_to_gossip times out.
GrowListenTimesOut ==
    /\ inbox = <<>>
    /\ nodes' = ListenHead(nodes).node
    /\ nlast' = ListenHead(nodes).events
    /\ UNCHANGED <<chainVars, inbox, tasks, spawned, timers, elapsed, starts>>

NextGrow ==
    \/ GrowTaskSends
    \/ GrowChainArrives
    \/ GrowListenGets
    \/ GrowListenTimesOut

SpecGrow == InitGrow /\ [][NextGrow]_vars

\* C37: the length of the chain of a node never decreases: whenever a node
\* replaces its chain, by a chain its mining task sent, by a chain of a
\* CHAIN datagram or by one from its broadcast channel, the length grows.
C37_ReplacementGrowsChain ==
    [][/\ nodes'.chain.len >= nodes.chain.len
       /\ nodes'.chain # nodes.chain => nodes'.chain.len > nodes.chain.len]_vars

\* A node that holds a chain of three blocks took from its broadcast
\* channel a chain that differs from its own and is no longer, and kept its
\* own.
C37_Witness ==
    /\ nodes.chain.len = 3
    /\ \E i \in 1..Len(nlast) :
          /\ nlast[i].src = "broadcast"
          /\ nlast[i].differ
          /\ nlast[i].got_len <= nlast[i].pre_len
          /\ nlast[i].kept


----------------------------------------------------------------------------
(* The scenario SpecTie: mining has stopped; two nodes that know each      *)
(* other hold chains that miners made, of equal or of different lengths,   *)
(* and go on with their node loops: a cycle gossips the chain or the new   *)
(* neighbours, then listen_to_peers takes the datagrams that have come     *)
(* until a wait of listen_to_gossip passes without one.  No datagram is    *)
(* lost.                                                                   *)

TieNodes == {"n2", "n3"}

Other(n) == CHOOSE d \in TieNodes : d # n

InitTie ==
    /\ now = 0
    /\ chain = ChainNew(0)
    /\ miner = MinerNew(ChainNew(0))
    /\ mined = {}
    /\ last = [op |-> "new", res |-> Ok]
    /\ \E held \in [TieNodes -> GrowChains] :
          nodes = [n \in TieNodes |->
                      [NodeNew("Node", {}, 0) EXCEPT !.chain = held[n],
                                                     !.neighbours = {Other(n)},
                                                     !.initialized = TRUE]]
    /\ inbox = [n \in TieNodes |-> <<>>]
    /\ tasks = NetIdle
    /\ spawned = 0
    /\ timers = NetIdle
    /\ elapsed = 0
    /\ starts = NetIdle
    /\ nlast = NoEvents

\* A cycle of node_loop of node n up to listen_to_peers: the theme
\* advances and the gossip task sends its datagrams to the neighbour.
TieSpread(n) ==
    LET theme == ThemeNext(nodes[n].theme)
        sent == Gossip(nodes[n].chain, Other(n), nodes[n].new_neighbours, theme)
    IN  /\ nodes[n].pc = "spread"
        /\ Len(inbox[Other(n)]) + Len(sent) <= MaxWaiting
        /\ nodes' = [nodes EXCEPT ![n].theme = theme, ![n].pc = "listen"]
        /\ inbox' = [inbox EXCEPT ![Other(n)] = @ \o sent]
        /\ nlast' = NoEvents
        /\ UNCHANGED <<chainVars, tasks, spawned, timers, elapsed, starts>>

\* An iteration of listen_to_peers of node n that gets a datagram.
TieGets(n) ==
    LET head == ListenHead(nodes[n])
        m == Head(inbox[n])
        r == IF m.kind = CHAIN
             THEN CheckRemoteChainAndBroadcast(head.node, m.chain[1])
             ELSE IF m.kind = NEIGHBOUR
             THEN [node |-> AddNeighbour(head.node, m.id), events |-> <<>>]
             ELSE [node |-> head.node, events |-> <<>>]
    IN  /\ nodes[n].pc = "listen"
        /\ inbox[n] # <<>>
        /\ nodes' = [nodes EXCEPT ![n] = r.node]
        /\ inbox' = [inbox EXCEPT ![n] = Tail(@)]
        /\ nlast' = head.events \o r.events
        /\ UNCHANGED <<chainVars, tasks, spawned, timers, elapsed, starts>>

\* An iteration of listen_to_peers of node n in which listen_to_gossip
\* times out: the next cycle of node_loop starts.
TieTimesOut(n) ==
    /\ nodes[n].pc = "listen"
    /\ inbox[n] = <<>>
    /\ nodes' = [nodes EXCEPT ![n] = [ListenHead(nodes[n]).node EXCEPT
                                         !.pc = "spread"]]
    /\ nlast' = ListenHead(nodes[n]).events
    /\ UNCHANGED <<chainVars, inbox, tasks, spawned, timers, elapsed, starts>>

NextTie ==
    \/ \E n \in TieNodes : TieSpread(n)
    \/ \E n \in TieNodes : TieGets(n)
    \/ \E n \in TieNodes : TieTimesOut(n)

SpecTie == InitTie /\ [][NextTie]_vars

\* Every step of a node that can be taken is taken.
FairTie ==
    /\ SpecTie
    /\ \A n \in TieNodes : WF_vars(TieSpread(n))
    /\ \A n \in TieNodes : WF_vars(TieGets(n))
    /\ \A n \in TieNodes : WF_vars(TieTimesOut(n))

SameBlocks == \A n \in TieNodes : nodes[n].chain.blocks = nodes["n2"].chain.blocks

SameLen == \A n \in TieNodes : nodes[n].chain.len = nodes["n2"].chain.len

\* C38: once mining has stopped and gossip goes on with fair delivery, all
\* nodes eventually hold the same sequence of blocks: two nodes that hold
\* different chains of equal length eventually hold one of the two.
C38_EqualLengthChainsReconcile == (SameLen /\ ~SameBlocks) ~> SameBlocks

\* The nodes eventually hold chains of the same length.
LengthsReconcile == <>[]SameLen


----------------------------------------------------------------------------
(* The scenario SpecDraw: the neighbours of a node come and go, and the    *)
(* node draws the neighbours of a dissemination round.                     *)

MaxKnown == 5       \* neighbours a node knows

KnownIds == {"n1", "n2", "n3", "n4", "n5"}

InitDraw ==
    /\ now = 0
    /\ chain = ChainNew(0)
    /\ miner = MinerNew(ChainNew(0))
    /\ mined = {}
    /\ last = [op |-> "new", res |-> Ok]
    /\ nodes = [neighbours |-> {}]
    /\ inbox = NetIdle
    /\ tasks = NetIdle
    /\ spawned = 0
    /\ timers = NetIdle
    /\ elapsed = 0
    /\ starts = NetIdle
    /\ nlast = NetIdle

\* add_neighbour: neighbours.entry(id).or_insert(neighbour)
DrawAdd ==
    /\ Cardinality(nodes.neighbours) < MaxKnown
    /\ \E id \in KnownIds \ nodes.neighbours :
          nodes' = [nodes EXCEPT !.neighbours = @ \cup {id}]
    /\ last' = [op |-> "add_neighbour", res |-> Ok]
    /\ UNCHANGED <<chain, miner, mined, now, inbox, tasks, spawned, timers,
                   elapsed, starts, nlast>>

\* remove_neighbour
DrawRemove ==
    /\ \E id \in nodes.neighbours :
          nodes' = [nodes EXCEPT !.neighbours = @ \ {id}]
    /\ last' = [op |-> "remove_neighbour", res |-> Ok]
    /\ UNCHANGED <<chain, miner, mined, now, inbox, tasks, spawned, timers,
                   elapsed, starts, nlast>>

\* node_loop: let random_neighbours = self.get_random_neighbours()
DrawNeighbours ==
    /\ \E random_neighbours \in RandomNeighbours(nodes.neighbours) :
          last' = [op |-> "get_random_neighbours",
                   n |-> Cardinality(nodes.neighbours),
                   random_neighbours |-> random_neighbours, res |-> Ok]
    /\ UNCHANGED <<chain, miner, mined, now, nodes, inbox, tasks, spawned,
                   timers, elapsed, starts, nlast>>

NextDraw ==
    \/ DrawAdd
    \/ DrawRemove
    \/ DrawNeighbours

SpecDraw == InitDraw /\ [][NextDraw]_vars

Drew == last.op = "get_random_neighbours"

\* C39 as claimed: a dissemination round targets ceil(sqrt(n)) neighbours
\* drawn from the n neighbours the node knows, none when n = 0.
C39_Original ==
    Drew =>
        LET k == Len(last.random_neighbours)
        IN  /\ (k = 0 \/ (k - 1) * (k - 1) < last.n) /\ last.n <= k * k
            /\ \A i \in 1..k : last.random_neighbours[i] \in nodes.neighbours
            /\ last.n = 0 => k = 0

\* C39 amended: a dissemination round makes floor(sqrt(n)) draws, with
\* repetition, from the n neighbours the node knows: it targets at least
\* one and at most floor(sqrt(n)) different neighbours, none when n = 0.
C39_FloorSqrtDraws ==
    Drew =>
        LET k == Len(last.random_neighbours)
            targets == {last.random_neighbours[i] : i \in 1..k}
        IN  /\ k * k <= last.n /\ last.n < (k + 1) * (k + 1)
            /\ targets \subseteq nodes.neighbours
            /\ Cardinality(targets) <= k
            /\ last.n > 0 => Cardinality(targets) >= 1
            /\ last.n = 0 => k = 0

\* A node that knows five neighbours drew the same neighbour twice.
C39_Witness ==
    /\ Drew
    /\ last.n = MaxKnown
    /\ Len(last.random_neighbours) = 2
    /\ last.random_neighbours[1] = last.random_neighbours[2]


----------------------------------------------------------------------------
(* Properties of the gossip theme, checked under SpecNet.                  *)

\* A cycle of node_loop of node n starts.
CycleOf(n) ==
    \E S \in SUBSET Nodes :
        NodeLoop(n, S) \/ EnterNetwork(n, S) \/ ListenTimeout(n, S)

\* The protocol byte of the datagrams of a theme.
KindOf(theme) == IF theme = "Chain" THEN CHAIN ELSE NEIGHBOUR

\* The gossip task of node n spawned in this step, if one was kept.
SpawnedGossip(n) ==
    SelectSeq(timers', LAMBDA t : t.kind = "gossip" /\ t.node = n
                                  /\ t.left = GOSSIP_INTERVAL)

\* C40: successive cycles of node_loop alternate the theme between Chain
\* and NewNeighbours, every cycle flipping it, and the dissemination of a
\* cycle sends only the datagrams of its theme: CHAIN in a Chain cycle,
\* NEIGHBOUR in a NewNeighbours cycle.
C40_ThemeAlternates ==
    [][/\ \A n \in DOMAIN nodes :
            /\ CycleOf(n) =>
                  /\ nodes'[n].theme # nodes[n].theme
                  /\ nodes'[n].theme \in {"Chain", "NewNeighbours"}
                  /\ \A i \in 1..Len(SpawnedGossip(n)) :
                        SpawnedGossip(n)[i].theme = nodes'[n].theme
            /\ ~CycleOf(n) => nodes'[n].theme = nodes[n].theme
       /\ GossipFires =>
            \A d \in DOMAIN inbox :
                \A i \in Len(inbox[d]) + 1..Len(inbox'[d]) :
                    inbox'[d][i].kind = KindOf(Head(RunOut).theme)]_vars

\* A node listens in a cycle of the theme NewNeighbours, its second cycle
\* or a later one since every node starts its first cycle by leaving that
\* theme, and the gossip of a NewNeighbours cycle has delivered a NEIGHBOUR
\* datagram.
C40_Witness ==
    \E n \in DOMAIN nodes, d \in DOMAIN nodes :
        /\ nodes[n].pc = "listen"
        /\ nodes[n].theme = "NewNeighbours"
        /\ \E i \in 1..Len(inbox[d]) : inbox[d][i].kind = NEIGHBOUR

====
